---- MODULE Spec2Model ----
(***************************************************************************)
(* A model of mcmeta's upstream metadata updater: the Mojang version sync  *)
(* (storage/mojang.rs), the Forge build sync and derived index             *)
(* (storage/forge.rs) and the Forge installer pass behind its index-hash   *)
(* gate.  All three batches run through the same                           *)
(* stream::iter(..).map(tokio::spawn).buffer_unordered(n) pipeline.        *)
(***************************************************************************)
EXTENDS Integers, Sequences, FiniteSets, TLC

\* ------------------------------------------------------------------ bounds
\* Largest max_parallel_fetch_connections explored (it ranges over 1..MaxParallel).
MaxParallel == 2
\* Number of entry-point calls (cycles) explored from the initial state.
MaxCycles == 2
\* Upstream "time" stamps range over 1..MaxTime.
MaxTime == 2
\* Largest number of builds the upstream maven metadata lists.
MaxListed == 2

\* Number of entry-point calls explored where a build is withdrawn and listed
\* again.
MaxReappearCycles == 3

\* Mojang version ids the upstream manifest may list.
MojangIds == {"a", "b"}

\* Option<T>: None, or Some(x) holding x (a missing file loads as None).
None == <<>>
Some(x) == <<x>>
Unwrap(o) == o[1]

\* ---------------------------------------------------------------- helpers
Range(s) == {s[i] : i \in DOMAIN s}

\* All orders in which an unordered collection (HashSet) may be iterated.
Orders(S) == {s \in [1..Cardinality(S) -> S] : \A i, j \in DOMAIN s : i # j => s[i] # s[j]}

\* ------------------------------------------------------------- strings
Char(s, i) == SubSeq(s, i, i)
Chars(s) == {Char(s, i) : i \in 1..Len(s)}
Digit == {"0", "1", "2", "3", "4", "5", "6", "7", "8", "9"}
Letter == {"a", "b", "c", "d", "e", "f", "g", "h", "i", "j", "k", "l", "m", "n", "o",
           "p", "q", "r", "s", "t", "u", "v", "w", "x", "y", "z",
           "A", "B", "C", "D", "E", "F", "G", "H", "I", "J", "K", "L", "M", "N", "O",
           "P", "Q", "R", "S", "T", "U", "V", "W", "X", "Y", "Z"}
StartsWith(s, p) == Len(s) >= Len(p) /\ SubSeq(s, 1, Len(p)) = p
Drop(s, n) == SubSeq(s, n + 1, Len(s))

\* The bytes the model's strings use, in byte order (String's Ord, which a
\* BTreeMap<String, _> iterates in).
ByteOrder == "-.0123456789ABCDEFGHIJKLMNOPQRSTUVWXYZ_abcdefghijklmnopqrstuvwxyz"
Byte(c) == CHOOSE k \in 1..Len(ByteOrder) : Char(ByteOrder, k) = c
RECURSIVE StrLess(_, _)
StrLess(a, b) ==
    IF Len(b) = 0 THEN FALSE
    ELSE IF Len(a) = 0 THEN TRUE
    ELSE IF Head(a) = Head(b) THEN StrLess(Tail(a), Tail(b))
    ELSE Byte(Head(a)) < Byte(Head(b))

\* The keys of a BTreeMap in iteration order.
RECURSIVE SortedKeys(_)
SortedKeys(S) ==
    IF S = {} THEN <<>>
    ELSE LET m == CHOOSE x \in S : \A y \in S \ {x} : StrLess(x, y)
         IN <<m>> \o SortedKeys(S \ {m})

\* str::parse::<i32> of a string of digits: None on overflow.
RECURSIVE DigitsValue(_)
DigitsValue(s) ==
    IF Len(s) = 0 THEN 0
    ELSE 10 * DigitsValue(SubSeq(s, 1, Len(s) - 1))
         + (Byte(Char(s, Len(s))) - Byte("0"))
RECURSIVE StripZeros(_)
StripZeros(s) == IF Len(s) > 1 /\ Head(s) = "0" THEN StripZeros(Tail(s)) ELSE s
parse_i32(s) ==
    LET t == StripZeros(s) IN
    IF /\ Len(s) > 0 /\ Chars(s) \subseteq Digit
       /\ \/ Len(t) < 10
          \/ Len(t) = 10 /\ (t = "2147483647" \/ StrLess(t, "2147483647"))
    THEN Some(DigitsValue(t)) ELSE None

\* ---------------------------------------------------------------- regexes
DashPositions(s) == {i \in 1..Len(s) : Char(s, i) = "-"}
Min(S) == CHOOSE x \in S : \A y \in S : x <= y
Max(S) == CHOOSE x \in S : \A y \in S : x >= y

\* The longest prefix of s made of characters of C (a greedy character class).
RECURSIVE Prefix(_, _)
Prefix(s, C) ==
    IF Len(s) > 0 /\ Head(s) \in C THEN Head(s) \o Prefix(Tail(s), C) ELSE ""

\* version_expression.captures(long_version):
\* ^(?P<mc>[0-9a-zA-Z_\.]+)-(?P<ver>[0-9\.]+\.(?P<build>[0-9]+))(-(?P<branch>[a-zA-Z0-9\.]+))?$
version_expression(long_version) ==
    LET dashes == DashPositions(long_version)
        d1 == Min(dashes)
        d2 == Max(dashes)
        mc == SubSeq(long_version, 1, d1 - 1)
        ver == IF Cardinality(dashes) = 1 THEN Drop(long_version, d1)
               ELSE SubSeq(long_version, d1 + 1, d2 - 1)
        branch == IF Cardinality(dashes) = 1 THEN None ELSE Some(Drop(long_version, d2))
        dots == {i \in 1..Len(ver) : Char(ver, i) = "."}
        build == Drop(ver, Max(dots))
    IN IF /\ Cardinality(dashes) \in {1, 2}
          /\ Len(mc) > 0 /\ Chars(mc) \subseteq (Digit \cup Letter \cup {"_", "."})
          /\ Chars(ver) \subseteq (Digit \cup {"."})
          /\ dots # {} /\ Max(dots) > 1 /\ Len(build) > 0
          /\ (branch # None =>
                /\ Len(Unwrap(branch)) > 0
                /\ Chars(Unwrap(branch)) \subseteq (Digit \cup Letter \cup {"."}))
       THEN Some([mc |-> mc, ver |-> ver, build |-> build, branch |-> branch])
       ELSE None

\* promoted_key_expression.captures(promo_key), an unanchored search for
\* (?P<mc>[^-]+)-(?P<promotion>(latest)|(recommended))(-(?P<branch>[a-zA-Z0-9\.]+))?
\* The leftmost match starts in the first dash-free run that a dash and one of
\* the two promotion words follow.
promoted_key_expression(promo_key) ==
    LET word(d) == IF StartsWith(Drop(promo_key, d), "latest") THEN "latest"
                   ELSE IF StartsWith(Drop(promo_key, d), "recommended") THEN "recommended"
                   ELSE ""
        hits == {d \in DashPositions(promo_key) :
                    d > 1 /\ Char(promo_key, d - 1) # "-" /\ word(d) # ""}
        d == Min(hits)
        rest == Drop(promo_key, d + Len(word(d)))
        run == IF Len(rest) > 0 /\ Head(rest) = "-"
               THEN Prefix(Tail(rest), Digit \cup Letter \cup {"."}) ELSE ""
        start == IF (DashPositions(promo_key) \cap 1..(d - 1)) = {} THEN 1
                 ELSE Max(DashPositions(promo_key) \cap 1..(d - 1)) + 1
    IN IF hits = {} THEN None
       ELSE Some([mc |-> SubSeq(promo_key, start, d - 1),
                  promotion |-> word(d),
                  branch |-> IF Len(run) > 0 THEN Some(run) ELSE None])

\* ------------------------------------------------------------------- maps
\* HashMap / BTreeMap values are functions whose domain is the key set.
EmptyMap == <<>>
Get(m, k) == IF k \in DOMAIN m THEN Some(m[k]) ELSE None
Put(m, k, v) == [x \in (DOMAIN m) \cup {k} |-> IF x = k THEN v ELSE m[x]]

\* ------------------------------------------------------ Forge: the upstream
\* What files.minecraftforge.net serves for the builds the model knows: the
\* game version listing a build, its files manifest (meta.json: classifier ->
\* extension -> hash) and what its installer archive holds.
Hash1 == "0123456789abcdef0123456789abcdef"
Hash2 == "fedcba9876543210fedcba9876543210"
InstallerManifest == [installer |-> [jar |-> Hash1], changelog |-> [txt |-> Hash2]]
UniversalManifest == [universal |-> [zip |-> Hash2]]

Catalogue ==
    << [mc_version |-> "1.20", long_version |-> "1.20-10.5.100",
        files |-> InstallerManifest, version_json |-> TRUE, install_profile |-> "V2"],
       [mc_version |-> "1.20", long_version |-> "1.20-10.7.200",
        files |-> InstallerManifest, version_json |-> FALSE, install_profile |-> "V1"],
       [mc_version |-> "1.5.2", long_version |-> "1.5.2-7.8.1.738",
        files |-> UniversalManifest, version_json |-> FALSE, install_profile |-> "none"],
       [mc_version |-> "1.20", long_version |-> "1.20-nightly",
        files |-> InstallerManifest, version_json |-> FALSE, install_profile |-> "none"] >>

LongVersions == {Catalogue[k].long_version : k \in DOMAIN Catalogue}

\* Builds upstream serves besides the catalogue: the release on the deny
\* list; a build whose installer classifier has two extensions with a valid
\* hash; and two builds whose install_profile.json deserializes as neither
\* profile schema, one with major version below 37 and one above (its
\* manifest also carries an extension whose hash is not 32 characters); and
\* a build of major version 47 whose installer jar has no install_profile.json.
TwoExtensionManifest == [installer |-> [jar |-> Hash1, zip |-> Hash2]]
ShortHashManifest == [installer |-> [jar |-> Hash1, zip |-> "0123456789abcdef"]]
Oddities ==
    << [mc_version |-> "1.12.2", long_version |-> "1.12.2-14.23.5.2851",
        files |-> InstallerManifest, version_json |-> FALSE, install_profile |-> "V1"],
       [mc_version |-> "1.20", long_version |-> "1.20-10.8.300",
        files |-> TwoExtensionManifest, version_json |-> FALSE, install_profile |-> "V2"],
       [mc_version |-> "1.20", long_version |-> "1.20-10.9.400",
        files |-> InstallerManifest, version_json |-> TRUE, install_profile |-> "unparsable"],
       [mc_version |-> "1.20.1", long_version |-> "1.20.1-47.1.0",
        files |-> ShortHashManifest, version_json |-> FALSE, install_profile |-> "unparsable"],
       [mc_version |-> "1.20.1", long_version |-> "1.20.1-47.2.0",
        files |-> InstallerManifest, version_json |-> FALSE, install_profile |-> "none"] >>
OddVersions == {Oddities[k].long_version : k \in DOMAIN Oddities}

\* Builds of a branch, listed like the others under their game version: a
\* 1.7.10 build of branch "1.7.10" and the prerelease build of 1.7.10_pre4.
Branched ==
    << [mc_version |-> "1.7.10", long_version |-> "1.7.10-10.13.4.1614-1.7.10",
        files |-> InstallerManifest, version_json |-> FALSE, install_profile |-> "V1"],
       [mc_version |-> "1.7.10_pre4", long_version |-> "1.7.10_pre4-10.12.2.1149-prerelease",
        files |-> InstallerManifest, version_json |-> FALSE, install_profile |-> "V1"] >>
BranchedVersions == {Branched[k].long_version : k \in DOMAIN Branched}

Served == Catalogue \o Oddities \o Branched
Build(long_version) == Served[CHOOSE k \in DOMAIN Served :
                                  Served[k].long_version = long_version]

\* The promotions documents upstream may serve (promotions_slim.json: promos).
PromotionDocs ==
    { EmptyMap,
      [k \in {"1.20-recommended", "1.20-latest"} |->
          IF k = "1.20-recommended" THEN "10.5.100" ELSE "10.7.200"] }

\* Further promotions documents: the one of the recommended/latest example
\* (a branch-scoped latest key), one whose only key promotes for game version
\* 1.5.2 the short version of a 1.20 build, and one with a branch-scoped
\* recommended key next to a plain latest key.
ExamplePromotions == ("1.20-recommended" :> "10.5") @@ ("1.20-latest-forge" :> "10.7")
OtherGamePromotions == ("1.5.2-recommended" :> "10.5.100")
BranchPromotions == ("1.20-recommended-forge" :> "10.7.200") @@ ("1.20-latest" :> "10.5.100")
PromotionCases == {ExamplePromotions, OtherGamePromotions, BranchPromotions}

\* storage/forge.rs: BAD_FORGE_VERSIONS
BAD_FORGE_VERSIONS == {"1.12.2-14.23.5.2851"}

\* ----------------------------------------------- Forge: the pure functions
\* A recommended set that also takes the branch-scoped recommended keys.
recommended_set_any_branch(promos) ==
    {promos[k] : k \in {key \in DOMAIN promos :
        LET captures == promoted_key_expression(key) IN
        /\ captures # None
        /\ Unwrap(captures).promotion = "recommended"}}

\* The recommended set update_forge_metadata builds from the promotions.
recommended_set(promos) ==
    {promos[k] : k \in {key \in DOMAIN promos :
        LET captures == promoted_key_expression(key) IN
        /\ captures # None
        /\ Unwrap(captures).branch = None
        /\ Unwrap(captures).promotion = "recommended"}}

\* The (mc_version, long_version) pairs a maven metadata document lists.
version_pairs(metadata) ==
    UNION {{[mc_version |-> mc, long_version |-> metadata[mc][k]] :
                k \in DOMAIN metadata[mc]} : mc \in DOMAIN metadata}

\* Iteration order of a ForgeVersionClassifier's extensions.
ExtensionOrder == <<"txt", "zip", "jar", "stash">>

\* regex \W removed from the hash
RECURSIVE StripNonWord(_)
StripNonWord(h) ==
    IF Len(h) = 0 THEN ""
    ELSE (IF Head(h) \in (Digit \cup Letter \cup {"_"}) THEN Head(h) ELSE "")
         \o StripNonWord(Tail(h))

\* get_single_forge_files_manifest, the loop over the classifiers: the map
\* classifier -> ForgeFile, or None for the "Multiple objects" error.
ValidExtensions(extension_obj) ==
    SelectSeq(ExtensionOrder, LAMBDA e :
        e \in DOMAIN extension_obj /\ Len(StripNonWord(extension_obj[e])) = 32)

\* A loop that keeps the first valid extension of a classifier and ignores
\* the others.
files_map_first_wins(files_metadata) ==
    LET present == {c \in DOMAIN files_metadata : Len(ValidExtensions(files_metadata[c])) > 0}
    IN Some([c \in present |->
                [classifier |-> c,
                 hash |-> StripNonWord(files_metadata[c][ValidExtensions(files_metadata[c])[1]]),
                 extension |-> ValidExtensions(files_metadata[c])[1]]])

files_map(files_metadata) ==
    LET present == {c \in DOMAIN files_metadata : Len(ValidExtensions(files_metadata[c])) > 0}
    IN IF \E c \in DOMAIN files_metadata : Len(ValidExtensions(files_metadata[c])) > 1
       THEN None
       ELSE Some([c \in present |->
                    [classifier |-> c,
                     hash |-> StripNonWord(files_metadata[c][ValidExtensions(files_metadata[c])[1]]),
                     extension |-> ValidExtensions(files_metadata[c])[1]]])

\* process_forge_version: the ForgeEntry of a build.
\* An entry built without the branch capture.
forge_entry_no_branch(rs, mc_version, long_version, build, version, branch, files) ==
    [long_version |-> long_version, mc_version |-> mc_version, version |-> version,
     build |-> build, branch |-> None, latest |-> None,
     recommended |-> Some(version \in rs), files |-> Some(files)]

forge_entry(rs, mc_version, long_version, build, version, branch, files) ==
    [long_version |-> long_version, mc_version |-> mc_version, version |-> version,
     build |-> build, branch |-> branch, latest |-> None,
     recommended |-> Some(version \in rs), files |-> Some(files)]

\* ForgeFile::filename and ForgeFile::url
filename(file, long_version) ==
    "forge-" \o long_version \o "-" \o file.classifier \o "." \o file.extension
url(file, long_version) ==
    "https://maven.minecraftforge.net/net/minecraftforge/forge/" \o long_version
        \o "/" \o filename(file, long_version)

\* str::replacen(from, to, 1)
RECURSIVE replacen1(_, _, _)
replacen1(s, from, to) ==
    IF Len(s) < Len(from) THEN s
    ELSE IF StartsWith(s, from) THEN to \o Drop(s, Len(from))
    ELSE Head(s) \o replacen1(Tail(s), from, to)

\* ForgeProcessedVersion::new
ForgeProcessedVersion(entry) ==
    LET long_version == entry.mc_version \o "-" \o entry.version \o
                        (IF entry.branch = None THEN "" ELSE "-" \o Unwrap(entry.branch))
        files == IF entry.files = None THEN EmptyMap ELSE Unwrap(entry.files)
        installer == {c \in DOMAIN files : c = "installer" /\ files[c].extension = "jar"}
        universal == {c \in DOMAIN files : c \in {"universal", "client"}
                                           /\ files[c].extension \in {"jar", "zip"}}
        changelog == {c \in DOMAIN files : c = "changelog" /\ files[c].extension = "txt"}
        last(S) == files[CHOOSE c \in S : \A d \in S \ {c} : StrLess(d, c)]
    IN [build |-> entry.build,
        raw_version |-> entry.version,
        mc_version |-> entry.mc_version,
        mc_version_sane |-> replacen1(entry.mc_version, "_pre", "-pre"),
        branch |-> entry.branch,
        installer_filename |-> IF installer = {} THEN None
                               ELSE Some(filename(last(installer), long_version)),
        installer_url |-> IF installer = {} THEN None
                          ELSE Some(url(last(installer), long_version)),
        universal_filename |-> IF universal = {} THEN None
                               ELSE Some(filename(last(universal), long_version)),
        universal_url |-> IF universal = {} THEN None
                          ELSE Some(url(last(universal), long_version)),
        changelog_url |-> IF changelog = {} THEN None
                          ELSE Some(url(last(changelog), long_version)),
        long_version |-> long_version]

uses_installer(version) == ~(version.installer_url = None \/ version.mc_version = "1.5.2")
version_filename(version) ==
    IF uses_installer(version) THEN version.installer_filename ELSE version.universal_filename
version_url(version) ==
    IF uses_installer(version) THEN version.installer_url ELSE version.universal_url

\* ForgeProcessedVersion::is_supported
is_supported(version) ==
    LET dots == {i \in 1..Len(version.raw_version) : Char(version.raw_version, i) = "."}
        major == IF dots = {} THEN version.raw_version
                 ELSE SubSeq(version.raw_version, 1, Min(dots) - 1)
    IN /\ version_url(version) # None
       /\ parse_i32(major) # None
       /\ Unwrap(parse_i32(major)) < 37

\* utils::hash(contents, HashAlgo::Sha256): the digest of a file's contents.
hash(contents) == [sha256 |-> contents]

VARIABLES
    source,                          \* the upstream the run under analysis syncs
    pc,                              \* where the updater is
    cycles,                          \* entry-point calls made so far
    max_parallel_fetch_connections,  \* MetadataConfig
    outcome,                         \* Result of the last entry-point call
    remote_manifest,                 \* upstream Mojang manifest: id -> time
    local_manifest,                  \* mojang/version_manifest_v2.json
    minecraft_versions,              \* mojang/versions/<id>.json
    pending,                         \* the items stream::iter walks
    next_item,                       \* index of the next item the stream yields
    tasks,                           \* per item: the spawned task's position
    results,                         \* what .collect::<Vec<_>>() has gathered
    failed_prev,                     \* items whose task failed in the previous batch
    listed,                          \* upstream: the builds the maven metadata lists
    promos,                          \* upstream: promotions_slim.json's promos
    local_maven,                     \* forge/maven-metadata.json
    local_promos,                    \* forge/promotions_slim.json
    local_index,                     \* forge/derived_index.json
    files_manifests,                 \* forge/files_manifests/<long version>.json
    last_index_entry,                \* forge/derived_index.last_index.json
    legacy_info_file,                \* <static>/forge/forge-legacyinfo.json
    jars,                            \* forge/jars/<file name>
    installer_manifests,             \* forge/installer_manifests/<long version>.json
    installer_infos,                 \* forge/installer_info/<long version>.json
    version_manifests,               \* forge/version_manifests/<long version>.json
    forge_index,                     \* update_forge_metadata's in-memory index
    aquire_legacy_info,              \* update_forge_installer_metadata's flag
    derived_index_hash,              \* update_forge_installer_metadata's digest
    descriptor,                      \* merge: the type whose Merge impl is called
    operands,                        \* merge: the values handed to merge
    merged                           \* merge: what the calls left in `left`

vars == <<source, pc, cycles, max_parallel_fetch_connections, outcome,
          remote_manifest, local_manifest, minecraft_versions,
          pending, next_item, tasks, results, failed_prev,
          listed, promos, local_maven, local_promos, local_index, files_manifests,
          last_index_entry, legacy_info_file, jars, installer_manifests,
          installer_infos, version_manifests, forge_index, aquire_legacy_info,
          derived_index_hash, descriptor, operands, merged>>

merge_vars == <<descriptor, operands, merged>>
system_vars == <<source, pc, cycles, max_parallel_fetch_connections, outcome,
                 remote_manifest, local_manifest, minecraft_versions,
                 pending, next_item, tasks, results, failed_prev,
                 listed, promos, local_maven, local_promos, local_index, files_manifests,
                 last_index_entry, legacy_info_file, jars, installer_manifests,
                 installer_infos, version_manifests, forge_index, aquire_legacy_info,
                 derived_index_hash>>
mojang_vars == <<remote_manifest, local_manifest, minecraft_versions>>
forge_upstream == <<listed, promos>>
forge_meta_files == <<local_maven, local_promos, local_index>>
installer_files == <<last_index_entry, legacy_info_file, jars, installer_manifests,
                     installer_infos, version_manifests>>
forge_locals == <<forge_index, aquire_legacy_info, derived_index_hash>>
forge_vars == <<forge_upstream, forge_meta_files, files_manifests, installer_files,
                forge_locals>>
config_vars == <<source, max_parallel_fetch_connections>>
batch_vars == <<pending, next_item, tasks, results>>

\* ------------------------------------------------- buffer_unordered pipeline
\* Tasks that were spawned and whose JoinHandle the buffer still holds.
InProgress == {i \in DOMAIN tasks : tasks[i].st \in {"spawned", "hung", "fetched", "done"}}
\* Tasks that were spawned and have not returned yet.
Running == {i \in DOMAIN tasks : tasks[i].st \in {"spawned", "hung", "fetched"}}

Queued == [st |-> "queued", out |-> "none", val |-> None]

StartBatch(kind, items) ==
    /\ pc' = kind
    /\ pending' = items
    /\ next_item' = 1
    /\ tasks' = [i \in DOMAIN items |-> Queued]
    /\ results' = <<>>
    /\ outcome' = "running"

\* The stream is exhausted and every JoinHandle was yielded: collect() returns.
\* A collect() that returns once an outcome was gathered.
Drained_first_outcome == results # <<>> \/ pending = <<>>

Drained == next_item > Len(pending) /\ InProgress = {}

TaskDone(i, out, val) ==
    tasks' = [tasks EXCEPT ![i] = [st |-> "done", out |-> out, val |-> val]]

\* A pipeline that spawns every item at once (join_all over the mapped stream).
buffer_has_room_unbounded == TRUE

\* A buffer of capacity 0 takes no future.
buffer_has_room_zero == Cardinality(InProgress) < 0

\* buffer_unordered(n): the buffer takes another future while it holds fewer
\* than n.
buffer_has_room == Cardinality(InProgress) < max_parallel_fetch_connections

\* buffer_unordered pulls the next item from the mapped stream while fewer than
\* n futures are in progress; the map closure spawns the task.  The Mojang
\* closure looks the id up in remote_versions and panics if it is missing.
buffer_unordered_spawn ==
    /\ pc \in {"mojang_batch", "forge_batch", "installer_batch"}
    /\ next_item <= Len(pending)
    /\ buffer_has_room
    /\ IF pc = "mojang_batch" /\ pending[next_item].id \notin DOMAIN remote_manifest
       THEN /\ pc' = "panicked"
            /\ UNCHANGED <<tasks, next_item>>
       ELSE /\ tasks' = [tasks EXCEPT ![next_item].st = "spawned"]
            /\ next_item' = next_item + 1
            /\ pc' = pc
    /\ UNCHANGED <<merge_vars, source, cycles, max_parallel_fetch_connections, outcome,
                   mojang_vars, pending, results, failed_prev, forge_vars>>

\* A pipeline that stops pulling items once a future failed (try_collect).
buffer_unordered_yield_try(i) ==
    /\ pc \in {"mojang_batch", "forge_batch", "installer_batch"}
    /\ tasks[i].st = "done"
    /\ \/ ~(Cardinality(InProgress) < max_parallel_fetch_connections)
       \/ next_item > Len(pending)
    /\ tasks' = [tasks EXCEPT ![i].st = "collected"]
    /\ results' = Append(results, [task |-> i, out |-> tasks[i].out, val |-> tasks[i].val])
    /\ next_item' = IF tasks[i].out = "ok" THEN next_item ELSE Len(pending) + 1
    /\ UNCHANGED <<merge_vars, source, pc, cycles, max_parallel_fetch_connections, outcome,
                   mojang_vars, pending, failed_prev, forge_vars>>

\* A collection that keeps the successes and a single representative error:
\* a further failure is taken off the buffer without being recorded.
buffer_unordered_yield_first_error(i) ==
    /\ pc \in {"mojang_batch", "forge_batch", "installer_batch"}
    /\ tasks[i].st = "done"
    /\ \/ ~(Cardinality(InProgress) < max_parallel_fetch_connections)
       \/ next_item > Len(pending)
    /\ tasks' = [tasks EXCEPT ![i].st = "collected"]
    /\ results' = IF tasks[i].out # "ok" /\ \E k \in DOMAIN results : results[k].out # "ok"
                  THEN results
                  ELSE Append(results, [task |-> i, out |-> tasks[i].out, val |-> tasks[i].val])
    /\ UNCHANGED <<merge_vars, source, pc, cycles, max_parallel_fetch_connections, outcome,
                   mojang_vars, pending, next_item, failed_prev, forge_vars>>

\* buffer_unordered yields a finished future once it could not pull more items
\* (the buffer is full or the stream is exhausted); the outcome is mapped to
\* Ok / Err and pushed onto the collected Vec.
buffer_unordered_yield(i) ==
    /\ pc \in {"mojang_batch", "forge_batch", "installer_batch"}
    /\ tasks[i].st = "done"
    /\ \/ ~buffer_has_room
       \/ next_item > Len(pending)
    /\ tasks' = [tasks EXCEPT ![i].st = "collected"]
    /\ results' = Append(results, [task |-> i, out |-> tasks[i].out, val |-> tasks[i].val])
    /\ UNCHANGED <<merge_vars, source, pc, cycles, max_parallel_fetch_connections, outcome,
                   mojang_vars, pending, next_item, failed_prev, forge_vars>>

\* ------------------------------------------------------------ aggregation
Succeeded(res) == SelectSeq(res, LAMBDA r : r.out = "ok")

\* utils::process_results: the successful items in collection order; the
\* batch as a whole is an error only when a storage failure is among the
\* outcomes (a join fault stays with its item).
process_results(res) ==
    [err |-> \E k \in DOMAIN res : res[k].out = "storage",
     ok |-> Succeeded(res)]

\* --------------------------------------------------------------- Mojang
\* update_mojang_metadata, up to the dispatch of the batch: the pending ids.
\* A comparison that also refetches the ids whose time did not change.
out_of_date_or_equal(local_versions) ==
    {id \in DOMAIN local_versions :
        /\ id \in DOMAIN remote_manifest
        /\ remote_manifest[id] >= local_versions[id]}

\* A comparison that also takes the local ids the remote manifest lacks.
out_of_date_or_withdrawn(local_versions) ==
    {id \in DOMAIN local_versions :
        \/ id \notin DOMAIN remote_manifest
        \/ remote_manifest[id] > local_versions[id]}

out_of_date(local_versions) ==
    {id \in DOMAIN local_versions :
        /\ id \in DOMAIN remote_manifest
        /\ remote_manifest[id] > local_versions[id]}

pending_ids ==
    IF local_manifest # None
    THEN LET remote_ids == DOMAIN remote_manifest
             local_versions == Unwrap(local_manifest)
             local_ids == DOMAIN local_versions
             diff == remote_ids \ local_ids
         IN {[k \in 1..(Len(d) + Len(o)) |->
                 IF k <= Len(d) THEN [id |-> d[k], force_update |-> FALSE]
                                ELSE [id |-> o[k - Len(d)], force_update |-> TRUE]] :
               d \in Orders(diff), o \in Orders(out_of_date(local_versions))}
    ELSE {[k \in DOMAIN o |-> [id |-> o[k], force_update |-> TRUE]] :
               o \in Orders(DOMAIN remote_manifest)}

update_mojang_metadata_begin ==
    /\ pc = "idle"
    /\ source = "mojang"
    /\ cycles < MaxCycles
    /\ \/ \* download::mojang::load_manifest or load_manifest fails
          /\ outcome' = "Err"
          /\ cycles' = cycles + 1
          /\ failed_prev' = {}
          /\ UNCHANGED <<pc, batch_vars>>
       \/ /\ \E items \in pending_ids : StartBatch("mojang_batch", items)
          /\ UNCHANGED <<cycles, failed_prev>>
    /\ UNCHANGED <<merge_vars, source, max_parallel_fetch_connections, mojang_vars, forge_vars>>

\* A task that downloads whatever is stored.
refresh_required_always(v) == TRUE

\* update_mojang_version_manifest: local_manifest.is_none() || force_update
refresh_required(v) == minecraft_versions[v.id] = None \/ v.force_update

\* update_mojang_version_manifest up to the download: the stored document is
\* looked up, and fetched when it is missing or the update is forced.
update_mojang_version_manifest_fetch(i) ==
    /\ pc = "mojang_batch"
    /\ tasks[i].st = "spawned"
    /\ LET v == pending[i] IN
       \/ /\ ~refresh_required(v)
          /\ TaskDone(i, "ok", None)
       \/ /\ refresh_required(v)
          /\ tasks' = [tasks EXCEPT ![i] =
                 [st |-> "fetched", out |-> "none",
                  val |-> Some([id |-> v.id, time |-> remote_manifest[v.id]])]]
       \/ /\ refresh_required(v)
          /\ \E k \in {"net", "data"} : TaskDone(i, k, None)
       \/ \E k \in {"storage", "join"} : TaskDone(i, k, None)
    /\ UNCHANGED <<merge_vars, source, pc, cycles, max_parallel_fetch_connections, outcome,
                   mojang_vars, pending, next_item, results, failed_prev, forge_vars>>

\* A store that reports success without writing the document.
store_minecraft_version_skipped(version) == UNCHANGED minecraft_versions

store_minecraft_version(version) ==
    minecraft_versions' = [minecraft_versions EXCEPT ![version.id] = Some(version)]

\* update_mojang_version_manifest after the download: the document is stored.
update_mojang_version_manifest_store(i) ==
    /\ pc = "mojang_batch"
    /\ tasks[i].st = "fetched"
    /\ \/ /\ store_minecraft_version(Unwrap(tasks[i].val))
          /\ TaskDone(i, "ok", None)
       \/ /\ \E k \in {"storage", "join"} : TaskDone(i, k, None)
          /\ UNCHANGED minecraft_versions
    /\ UNCHANGED <<merge_vars, source, pc, cycles, max_parallel_fetch_connections, outcome,
                   remote_manifest, local_manifest, pending, next_item, results,
                   failed_prev, forge_vars>>

\* What identifies an item of the batch that is running.
ItemKey(item) ==
    CASE pc = "mojang_batch" -> item.id
      [] pc = "forge_batch" -> item
      [] pc = "installer_batch" -> item.long_version

FailedItems ==
    {ItemKey(pending[results[k].task]) : k \in {j \in DOMAIN results : results[j].out # "ok"}}

\* update_mojang_metadata after collect(): process_results(results)?, then
\* the remote manifest replaces the stored one.
update_mojang_metadata_end ==
    /\ pc = "mojang_batch"
    /\ Drained
    /\ IF process_results(results).err
       THEN outcome' = "Err" /\ UNCHANGED local_manifest
       ELSE \/ outcome' = "Ok" /\ local_manifest' = Some(remote_manifest)
            \/ outcome' = "Err" /\ UNCHANGED local_manifest
    /\ pc' = "idle"
    /\ cycles' = cycles + 1
    /\ failed_prev' = FailedItems
    /\ pending' = <<>> /\ tasks' = <<>> /\ results' = <<>> /\ next_item' = 1
    /\ UNCHANGED <<merge_vars, source, max_parallel_fetch_connections, remote_manifest,
                   minecraft_versions, forge_vars>>

\* Upstream publishes between two cycles: a new id, another time for a listed
\* id, or an id withdrawn.
mojang_upstream_publish ==
    /\ pc = "idle"
    /\ source = "mojang"
    /\ cycles < MaxCycles
    /\ \/ \E id \in MojangIds \ DOMAIN remote_manifest, t \in 1..MaxTime :
             remote_manifest' = [x \in DOMAIN remote_manifest \cup {id} |->
                                    IF x = id THEN t ELSE remote_manifest[x]]
       \/ \E id \in DOMAIN remote_manifest :
             \E t \in (1..MaxTime) \ {remote_manifest[id]} :
                remote_manifest' = [remote_manifest EXCEPT ![id] = t]
       \/ \E id \in DOMAIN remote_manifest :
             remote_manifest' = [x \in DOMAIN remote_manifest \ {id} |-> remote_manifest[x]]
    /\ UNCHANGED <<merge_vars, source, pc, cycles, max_parallel_fetch_connections, outcome,
                   local_manifest, minecraft_versions, batch_vars, failed_prev,
                   forge_vars>>

\* ---------------------------------------------------------------- Forge
\* download::forge::load_maven_metadata: mc version -> the listed builds.
CatalogueOrder == [k \in DOMAIN Served |-> Served[k].long_version]
maven_metadata ==
    [mc \in {Build(lv).mc_version : lv \in listed} |->
        SelectSeq(CatalogueOrder, LAMBDA lv : lv \in listed /\ Build(lv).mc_version = mc)]

\* DerivedForgeIndex::default() and ForgeMCVersionInfo::default()
DefaultIndex == [versions |-> EmptyMap, by_mc_version |-> EmptyMap]
DefaultInfo == [latest |-> None, recommended |-> None, versions |-> <<>>]

MaxKey(S) == CHOOSE k \in S : \A d \in S \ {k} : StrLess(d, k)

\* update_forge_metadata, "update recomendations for local versions"; the loop
\* panics when a recommended build's mc version has no by_mc_version entry.
recommendations_panic(index, rs) ==
    \E lv \in DOMAIN index.versions :
        /\ index.versions[lv].version \in rs
        /\ index.versions[lv].mc_version \notin DOMAIN index.by_mc_version

update_recommendations(index, rs) ==
    LET recs(mc) == {lv \in DOMAIN index.versions :
                        /\ index.versions[lv].mc_version = mc
                        /\ index.versions[lv].version \in rs}
    IN [versions |-> [lv \in DOMAIN index.versions |->
                        [index.versions[lv] EXCEPT
                            !.recommended = Some(index.versions[lv].version \in rs)]],
        by_mc_version |-> [mc \in DOMAIN index.by_mc_version |->
                        IF recs(mc) = {} THEN index.by_mc_version[mc]
                        ELSE [index.by_mc_version[mc] EXCEPT
                                 !.recommended = Some(MaxKey(recs(mc)))]]]

\* A loop body that leaves the returned entry out of the index.
insert_version_skipped(index, e) == index

\* update_forge_metadata, the body of "for forge_version in forge_versions".
insert_version(index, e) ==
    LET by0 == IF e.mc_version \in DOMAIN index.by_mc_version THEN index.by_mc_version
               ELSE Put(index.by_mc_version, e.mc_version, DefaultInfo)
        info == by0[e.mc_version]
    IN [versions |-> Put(index.versions, e.long_version, e),
        by_mc_version |-> Put(by0, e.mc_version,
            [latest |-> info.latest,
             recommended |-> IF e.recommended = Some(TRUE) THEN Some(e.long_version)
                             ELSE info.recommended,
             versions |-> Append(info.versions, e.long_version)])]

RECURSIVE insert_versions(_, _)
insert_versions(index, forge_versions) ==
    IF forge_versions = <<>> THEN index
    ELSE insert_versions(insert_version(index, Head(forge_versions)), Tail(forge_versions))

\* update_forge_metadata, "adding missing 'latest'"; panics on an empty list.
latest_panic(index) ==
    \E mc \in DOMAIN index.by_mc_version : index.by_mc_version[mc].versions = <<>>

\* A post-processing that takes the first listed build of a game version.
add_latest_first(index) ==
    [versions |-> index.versions,
     by_mc_version |-> [mc \in DOMAIN index.by_mc_version |->
        [index.by_mc_version[mc] EXCEPT
            !.latest = Some(index.by_mc_version[mc].versions[1])]]]

add_latest(index) ==
    [versions |-> index.versions,
     by_mc_version |-> [mc \in DOMAIN index.by_mc_version |->
        [index.by_mc_version[mc] EXCEPT
            !.latest = Some(index.by_mc_version[mc].versions[
                                Len(index.by_mc_version[mc].versions)])]]]

\* A diff that takes missing local metadata for "nothing to fetch".
pending_forge_version_pairs_none ==
    IF local_maven # None
    THEN version_pairs(maven_metadata) \ version_pairs(Unwrap(local_maven))
    ELSE {}

\* update_forge_metadata: the pairs it dispatches.
pending_forge_version_pairs ==
    LET process_all == local_index # None /\ DOMAIN Unwrap(local_index).versions = {}
    IN IF local_maven # None /\ ~process_all
       THEN version_pairs(maven_metadata) \ version_pairs(Unwrap(local_maven))
       ELSE version_pairs(maven_metadata)

\* An update that starts every cycle from an empty index.
starting_forge_index_default == DefaultIndex

\* update_forge_metadata: the index it extends is the stored one, if any.
starting_forge_index ==
    IF local_index = None THEN DefaultIndex ELSE Unwrap(local_index)

\* update_forge_metadata up to the dispatch of the batch.
update_forge_metadata_begin ==
    /\ pc = "idle"
    /\ source = "forge"
    /\ cycles < MaxCycles
    /\ LET rs == recommended_set(promos)
           index == starting_forge_index
       IN \/ \* a download or a load of the stored documents fails
             /\ outcome' = "Err"
             /\ cycles' = cycles + 1
             /\ failed_prev' = {}
             /\ UNCHANGED <<pc, batch_vars, forge_index>>
          \/ /\ recommendations_panic(index, rs)
             /\ pc' = "panicked"
             /\ UNCHANGED <<outcome, cycles, failed_prev, batch_vars, forge_index>>
          \/ /\ ~recommendations_panic(index, rs)
             /\ forge_index' = update_recommendations(index, rs)
             /\ \E items \in Orders(pending_forge_version_pairs) :
                    StartBatch("forge_batch", items)
             /\ UNCHANGED <<cycles, failed_prev>>
    /\ UNCHANGED <<merge_vars, config_vars, mojang_vars, forge_upstream, forge_meta_files,
                   files_manifests, installer_files, aquire_legacy_info,
                   derived_index_hash>>

\* The ForgeEntry a build task returns from a files manifest, or the failure.
\* (The captures are bound by \E so that the match is computed once.)
entry_result(i, files_metadata) ==
    LET item == pending[i]
        files == files_map(files_metadata)
    IN IF files = None THEN TaskDone(i, "data", None)
       ELSE \E captures \in {Unwrap(version_expression(item.long_version))} :
            \E build \in {Unwrap(parse_i32(captures.build))} :
                TaskDone(i, "ok",
                    Some(forge_entry(recommended_set(promos), item.mc_version,
                                     item.long_version, build,
                                     captures.ver, captures.branch, Unwrap(files))))

\* A lookup that never finds the stored files manifest.
load_files_manifest_missing(version_name) == None

\* ForgeDataStorage::load_files_manifest
load_files_manifest(version_name) == Get(files_manifests, version_name)

\* A task that returns without an entry and without an error when the long
\* version does not parse.
version_parse_skipped(i) == TaskDone(i, "ok", None)

\* The spawned build task when version_expression does not match, or the
\* build number does not fit an i32: Err(anyhow!(..)).
version_parse_failure(i) == TaskDone(i, "data", None)

\* The spawned build task up to the download of meta.json: the long version is
\* parsed, and get_single_forge_files_manifest looks the stored manifest up.
process_forge_version_fetch(i) ==
    /\ pc = "forge_batch"
    /\ tasks[i].st = "spawned"
    /\ \E lv \in {pending[i].long_version} :
       \E captures \in {version_expression(lv)} :
          IF captures = None \/ parse_i32(Unwrap(captures).build) = None
          THEN version_parse_failure(i)
          ELSE \/ TaskDone(i, "storage", None)
               \/ /\ load_files_manifest(lv) = None
                  /\ TaskDone(i, "net", None)
               \/ /\ load_files_manifest(lv) = None
                  /\ tasks' = [tasks EXCEPT ![i] =
                        [st |-> "fetched", out |-> "none", val |-> Some(Build(lv).files)]]
               \/ /\ load_files_manifest(lv) # None
                  /\ entry_result(i, Unwrap(load_files_manifest(lv)))
    /\ UNCHANGED <<merge_vars, config_vars, pc, cycles, outcome, mojang_vars, pending, next_item,
                   results, failed_prev, forge_vars>>

\* The build task after the download: store_files_manifest, then the entry.
process_forge_version_store(i) ==
    /\ pc = "forge_batch"
    /\ tasks[i].st = "fetched"
    /\ \/ /\ TaskDone(i, "storage", None)
          /\ UNCHANGED files_manifests
       \/ /\ files_manifests' = Put(files_manifests, pending[i].long_version,
                                    Unwrap(tasks[i].val))
          /\ entry_result(i, Unwrap(tasks[i].val))
    /\ UNCHANGED <<merge_vars, config_vars, pc, cycles, outcome, mojang_vars, pending, next_item,
                   results, failed_prev, forge_upstream, forge_meta_files,
                   installer_files, forge_locals>>

\* update_forge_metadata after collect(): process_results(results)?, the
\* index is extended with the returned entries, and the three documents are
\* stored in turn; initialize_forge_metadata then runs the installer pass.
update_forge_metadata_end ==
    /\ pc = "forge_batch"
    /\ Drained
    /\ LET pr == process_results(results)
           forge_versions == [k \in DOMAIN pr.ok |-> Unwrap(pr.ok[k].val)]
           built == insert_versions(forge_index, forge_versions)
           returns(o) == /\ outcome' = o
                         /\ pc' = IF o = "Ok" THEN "installer" ELSE "idle"
                         /\ cycles' = IF o = "Ok" THEN cycles ELSE cycles + 1
       IN IF pr.err
          THEN returns("Err") /\ UNCHANGED forge_meta_files
          ELSE IF latest_panic(built)
          THEN /\ pc' = "panicked"
               /\ UNCHANGED <<outcome, cycles, forge_meta_files>>
          ELSE \/ returns("Err") /\ UNCHANGED forge_meta_files
               \/ /\ returns("Err")
                  /\ local_maven' = Some(maven_metadata)
                  /\ UNCHANGED <<local_promos, local_index>>
               \/ /\ returns("Err")
                  /\ local_maven' = Some(maven_metadata)
                  /\ local_promos' = Some(promos)
                  /\ UNCHANGED local_index
               \/ /\ returns("Ok")
                  /\ local_maven' = Some(maven_metadata)
                  /\ local_promos' = Some(promos)
                  /\ local_index' = Some(add_latest(built))
    /\ failed_prev' = FailedItems
    /\ forge_index' = DefaultIndex
    /\ pending' = <<>> /\ tasks' = <<>> /\ results' = <<>> /\ next_item' = 1
    /\ UNCHANGED <<merge_vars, config_vars, mojang_vars, forge_upstream, files_manifests,
                   installer_files, aquire_legacy_info, derived_index_hash>>

\* update_forge_installer_metadata: the versions the stream keeps.
installer_versions(derived_index) ==
    LET keys == SortedKeys(DOMAIN derived_index.versions)
        all == [k \in DOMAIN keys |-> ForgeProcessedVersion(derived_index.versions[keys[k]])]
    IN SelectSeq(all, LAMBDA version :
          version_url(version) # None /\ version.long_version \notin BAD_FORGE_VERSIONS)

\* A gate that never skips, and a gate that skips whenever a digest is stored.
index_up_to_date_never == FALSE
index_up_to_date_any == last_index_entry # None

\* update_forge_installer_metadata, "check if we even need to regenerate".
index_up_to_date ==
    /\ last_index_entry # None
    /\ Unwrap(last_index_entry).hash = hash(Unwrap(local_index))

\* A pass that gathers the legacy info whether or not the file exists.
legacy_info_missing_always == TRUE

\* update_forge_installer_metadata: aquire_legacy_info = !legacy_info_path.is_file()
legacy_info_missing == legacy_info_file = None

\* update_forge_installer_metadata up to the dispatch of the batch: the
\* stored digest is compared with the digest of the stored index.
update_forge_installer_metadata_begin ==
    /\ pc = "installer"
    /\ \/ \* the static directory, the index or the digest cannot be read
          /\ outcome' = "Err"
          /\ pc' = "idle"
          /\ cycles' = cycles + 1
          /\ UNCHANGED <<batch_vars, aquire_legacy_info, derived_index_hash>>
       \/ /\ local_index # None
          /\ index_up_to_date
          /\ outcome' = "Ok"
          /\ pc' = "idle"
          /\ cycles' = cycles + 1
          /\ UNCHANGED <<batch_vars, aquire_legacy_info, derived_index_hash>>
       \/ /\ local_index # None
          /\ ~index_up_to_date
          /\ aquire_legacy_info' = legacy_info_missing
          /\ derived_index_hash' = Some(hash(Unwrap(local_index)))
          /\ StartBatch("installer_batch", installer_versions(Unwrap(local_index)))
          /\ UNCHANGED cycles
    /\ UNCHANGED <<merge_vars, config_vars, mojang_vars, failed_prev, forge_upstream,
                   forge_meta_files, files_manifests, installer_files, forge_index>>

\* What the maven serves for a build's jar, if anything.
Archive(long_version) ==
    IF long_version \in LongVersions \cup OddVersions \cup BranchedVersions
    THEN Some(Build(long_version)) ELSE None

\* A file of forge/installer_manifests: what was serialized into it.
VersionFile(id) == [kind |-> "MojangVersion", body |-> id]
ProfileFile(schema) == [kind |-> "ForgeInstallerProfile", body |-> schema]
InfoFile(digest) == [kind |-> "InstallerInfo", body |-> digest]

\* ForgeDataStorage::store_installer_manifest writes
\* installer_manifests_dir()/<version name>.json.
store_installer_manifest(manifests, version_name, profile) ==
    Put(manifests, version_name, ProfileFile(profile))

\* ForgeDataStorage::store_mojang_version writes
\* installer_manifests_dir()/<version name>.json.
store_mojang_version(manifests, version_name, id) ==
    Put(manifests, version_name, VersionFile(id))

\* ForgeDataStorage::store_installer_info writes
\* installer_manifests_dir()/<version name>.json.
store_installer_info(manifests, version_name, digest) ==
    Put(manifests, version_name, InfoFile(digest))

\* ForgeDataStorage::load_mojang_version reads
\* version_manifests_dir()/<version name>.json.
load_mojang_version(version_name) == Get(version_manifests, version_name)

\* ForgeDataStorage::load_installer_info reads
\* version_manifests_dir()/<version name>.json.
load_installer_info(version_name) == Get(version_manifests, version_name)

\* What deserializing a file as the untagged ForgeInstallerProfile gives.
\* A serialized MojangVersion or InstallerInfo is no V1 profile (it has no
\* `install`) and is a V2 profile: every field of V2 is optional and
\* unknown fields are not denied.
EmptyV2 == "V2 without spec"
as_installer_profile(file) ==
    IF file.kind = "ForgeInstallerProfile" THEN file.body ELSE EmptyV2

\* ForgeDataStorage::load_installer_manifest reads
\* installer_manifests_dir()/<version name>.json.
load_installer_manifest(version_name) ==
    IF version_name \in DOMAIN installer_manifests
    THEN Some(as_installer_profile(installer_manifests[version_name]))
    ELSE None

\* process_forge_installer up to and including the download of the jar.
process_forge_installer_fetch(i) ==
    /\ pc = "installer_batch"
    /\ tasks[i].st = "spawned"
    /\ LET version == pending[i]
           jar == Unwrap(version_filename(version))
           installer_refresh_required ==
               \/ load_installer_manifest(version.long_version) = None
               \/ load_installer_info(version.long_version) = None
           wanted == IF uses_installer(version) THEN installer_refresh_required
                     ELSE version.mc_version_sane # "1.6.1" /\ aquire_legacy_info
           proceed == tasks' = [tasks EXCEPT ![i].st = "fetched"]
       IN \/ /\ ~uses_installer(version) /\ ~wanted
             /\ TaskDone(i, "ok", None)
             /\ UNCHANGED jars
          \/ /\ uses_installer(version) \/ wanted
             /\ ~(wanted /\ jar \notin jars)
             /\ proceed
             /\ UNCHANGED jars
          \/ /\ wanted /\ jar \notin jars
             /\ Archive(version.long_version) # None
             /\ jars' = jars \cup {jar}
             /\ proceed
          \/ /\ wanted /\ jar \notin jars
             /\ TaskDone(i, "net", None)
             /\ UNCHANGED jars
          \/ /\ TaskDone(i, "storage", None)
             /\ UNCHANGED jars
    /\ UNCHANGED <<merge_vars, config_vars, pc, cycles, outcome, mojang_vars, pending, next_item,
                   results, failed_prev, forge_upstream, forge_meta_files,
                   files_manifests, last_index_entry, legacy_info_file,
                   installer_manifests, installer_infos, version_manifests,
                   forge_locals>>

\* process_forge_installer after the download.  The writes happen in the
\* order version.json, install_profile.json, installer info; a failing
\* write leaves what the writes before it stored.
process_forge_installer_extract(i) ==
    /\ pc = "installer_batch"
    /\ tasks[i].st = "fetched"
    /\ LET version == pending[i]
           lv == version.long_version
           jar == Unwrap(version_filename(version))
           archive == Unwrap(Archive(lv))
           installer_info == load_installer_info(lv)
           profile == load_installer_manifest(lv)
           opened == profile = None
           profile_read == opened /\ archive.install_profile \in {"V1", "V2"}
           profile_error ==
               /\ opened
               /\ \/ archive.install_profile = "none"
                  \/ archive.install_profile = "unparsable" /\ is_supported(version)
           hashed == installer_info = None /\ ~profile_error
           with_version ==
               IF opened /\ archive.version_json
               THEN store_mojang_version(installer_manifests, lv, lv)
               ELSE installer_manifests
           with_profile ==
               IF profile_read
               THEN store_installer_manifest(with_version, lv, archive.install_profile)
               ELSE with_version
           with_info ==
               IF hashed THEN store_installer_info(with_profile, lv, jar)
               ELSE with_profile
       IN \/ /\ uses_installer(version)
             /\ ~profile_error
             /\ installer_manifests' = with_info
             /\ TaskDone(i, "ok", None)
          \/ /\ uses_installer(version)
             /\ profile_error
             /\ installer_manifests' = with_version
             /\ TaskDone(i, "data", None)
          \/ \* store_installer_manifest fails
             /\ uses_installer(version)
             /\ profile_read
             /\ installer_manifests' = with_version
             /\ TaskDone(i, "storage", None)
          \/ \* store_installer_info fails
             /\ uses_installer(version)
             /\ hashed
             /\ installer_manifests' = with_profile
             /\ TaskDone(i, "storage", None)
          \/ /\ ~uses_installer(version)
             /\ TaskDone(i, "ok", Some(<<lv, [sha1 |-> jar, sha256 |-> jar]>>))
             /\ UNCHANGED installer_manifests
          \/ \* the jar cannot be read, or the first write fails
             /\ TaskDone(i, "storage", None)
             /\ UNCHANGED installer_manifests
    /\ UNCHANGED <<merge_vars, config_vars, pc, cycles, outcome, mojang_vars, pending, next_item,
                   results, failed_prev, forge_upstream, forge_meta_files,
                   files_manifests, last_index_entry, legacy_info_file, jars,
                   installer_infos, version_manifests, forge_locals>>

\* utils::process_results_ok: the successful items; the failures are dropped.
process_results_ok(res) == [k \in DOMAIN Succeeded(res) |-> Succeeded(res)[k].val]

\* update_forge_installer_metadata, the ForgeLegacyInfoList it fills.
RECURSIVE legacy_info_list(_)
legacy_info_list(legacy_version_infos) ==
    IF legacy_version_infos = <<>> THEN EmptyMap
    ELSE LET rest == legacy_info_list(Tail(legacy_version_infos))
             info == Head(legacy_version_infos)
         IN IF info = None THEN rest
            ELSE IF Unwrap(info)[1] \in DOMAIN rest THEN rest
            ELSE Put(rest, Unwrap(info)[1], Unwrap(info)[2])

\* update_forge_installer_metadata after collect(): the legacy info is written
\* when the file is missing, and the digest taken at the start is stored.
update_forge_installer_metadata_end ==
    /\ pc = "installer_batch"
    /\ Drained
    /\ LET number == legacy_info_list(process_results_ok(results))
           write_legacy_info ==
               IF legacy_info_file = None THEN legacy_info_file' = Some(number)
               ELSE UNCHANGED legacy_info_file
       IN \/ /\ legacy_info_file = None
             /\ outcome' = "Err"
             /\ UNCHANGED <<legacy_info_file, last_index_entry>>
          \/ /\ write_legacy_info
             /\ outcome' = "Err"
             /\ UNCHANGED last_index_entry
          \/ /\ write_legacy_info
             /\ last_index_entry' = Some([path |-> "", hash |-> Unwrap(derived_index_hash)])
             /\ outcome' = "Ok"
    /\ pc' = "idle"
    /\ cycles' = cycles + 1
    /\ aquire_legacy_info' = FALSE
    /\ derived_index_hash' = None
    /\ pending' = <<>> /\ tasks' = <<>> /\ results' = <<>> /\ next_item' = 1
    /\ UNCHANGED <<merge_vars, config_vars, mojang_vars, failed_prev, forge_upstream,
                   forge_meta_files, files_manifests, jars, installer_manifests,
                   installer_infos, version_manifests, forge_index>>

\* Upstream publishes between two cycles: one more build is listed (the maven
\* listing only grows), or the promotions change.
forge_upstream_publish ==
    /\ pc = "idle"
    /\ source = "forge"
    /\ cycles < MaxCycles
    /\ \/ /\ Cardinality(listed) < MaxListed
          /\ \E lv \in LongVersions \ listed : listed' = listed \cup {lv}
          /\ UNCHANGED promos
       \/ /\ \E p \in PromotionDocs \ {promos} : promos' = p
          /\ UNCHANGED listed
    /\ UNCHANGED <<merge_vars, config_vars, pc, cycles, outcome, mojang_vars, batch_vars,
                   failed_prev, forge_meta_files, files_manifests, installer_files,
                   forge_locals>>

\* Upstream withdraws a build between two cycles: the maven metadata no
\* longer lists it.
forge_upstream_withdraw ==
    /\ pc = "idle"
    /\ source = "forge"
    /\ cycles < MaxCycles
    /\ \E lv \in listed : listed' = listed \ {lv}
    /\ UNCHANGED <<merge_vars, config_vars, pc, cycles, outcome, mojang_vars, batch_vars,
                   failed_prev, promos, forge_meta_files, files_manifests,
                   installer_files, forge_locals>>

\* Upstream lists again, between two cycles, a build it had withdrawn after
\* the build was indexed.
forge_upstream_list_again ==
    /\ pc = "idle"
    /\ source = "forge"
    /\ cycles < MaxCycles
    /\ local_index # None
    /\ \E lv \in DOMAIN Unwrap(local_index).versions \ listed : listed' = listed \cup {lv}
    /\ UNCHANGED <<merge_vars, config_vars, pc, cycles, outcome, mojang_vars, batch_vars,
                   failed_prev, promos, forge_meta_files, files_manifests,
                   installer_files, forge_locals>>

\* Upstream accepts the request of a task and never responds.  The clients
\* are reqwest::Client::new() with no timeout and the futures are awaited
\* as they are, so the task stays in client.get(url).send().await: a hung
\* task has no further step.
request_hangs(i) ==
    /\ pc \in {"forge_batch", "installer_batch"}
    /\ tasks[i].st = "spawned"
    /\ IF pc = "forge_batch"
       THEN /\ version_expression(pending[i].long_version) # None
            /\ Get(files_manifests, pending[i].long_version) = None
       ELSE /\ Unwrap(version_filename(pending[i])) \notin jars
            /\ IF uses_installer(pending[i])
               THEN \/ load_installer_manifest(pending[i].long_version) = None
                    \/ load_installer_info(pending[i].long_version) = None
               ELSE pending[i].mc_version_sane # "1.6.1" /\ aquire_legacy_info
    /\ tasks' = [tasks EXCEPT ![i].st = "hung"]
    /\ UNCHANGED <<merge_vars, config_vars, pc, cycles, outcome, mojang_vars, pending, next_item,
                   results, failed_prev, forge_vars>>

\* ------------------------------------------------------------------- merge
\* libmcmeta's merge strategies.  A HashMap is a function on its keys, a Vec
\* a sequence; `left` is the value merged into and the result is what the
\* call leaves in it.

\* merge::overwrite
overwrite(left, right) == right

\* merge::option::overwrite_some
overwrite_some(left, right) == IF right # None THEN right ELSE left

\* merge::vec::append of the merge crate: left.append(&mut right).
vec_append(left, right) == left \o right

\* An append_some that leaves a None `left` as it is.
append_some_no_replace(left, right) ==
    IF right # None /\ left # None THEN Some(Unwrap(left) \o Unwrap(right)) ELSE left

\* merge::option_vec::append_some
append_some(left, right) ==
    IF right # None
    THEN IF left # None THEN Some(Unwrap(left) \o Unwrap(right)) ELSE right
    ELSE left

\* The entries of a map a `for (k, v) in right` loop has still to visit.
Rest(m, k) == [x \in (DOMAIN m) \ {k} |-> m[x]]

\* merge::hashmap::overwrite_key: for (k, v) in right { left.insert(k, v); }
RECURSIVE overwrite_key(_, _)
overwrite_key(left, right) ==
    IF DOMAIN right = {} THEN left
    ELSE LET k == CHOOSE x \in DOMAIN right : TRUE
         IN overwrite_key(Put(left, k, right[k]), Rest(right, k))

\* merge::option_hashmap::overwrite_key_some
overwrite_key_some(left, right) ==
    IF right # None
    THEN IF left # None THEN Some(overwrite_key(Unwrap(left), Unwrap(right))) ELSE right
    ELSE left

RECURSIVE merge(_, _, _)
RECURSIVE hashmap_recurse(_, _, _)

\* An option::recurse that moves the value out of `left` with take() and
\* merges into the temporary.
option_recurse_taken(T, left, right) ==
    IF right # None THEN IF left # None THEN None ELSE right ELSE left

\* merge::option::recurse::<T>
option_recurse(T, left, right) ==
    IF right # None
    THEN IF left # None THEN Some(merge(T, Unwrap(left), Unwrap(right))) ELSE right
    ELSE left

\* A hashmap::recurse whose occupied entries are overwritten.
hashmap_recurse_insert(V, left, right) == overwrite_key(left, right)

\* merge::hashmap::recurse::<K, V>: an occupied entry is merged with v, a
\* vacant one takes v.
hashmap_recurse(V, left, right) ==
    IF DOMAIN right = {} THEN left
    ELSE LET k == CHOOSE x \in DOMAIN right : TRUE
             v == right[k]
         IN hashmap_recurse(V,
                IF k \in DOMAIN left THEN Put(left, k, merge(V, left[k], v))
                ELSE Put(left, k, v),
                Rest(right, k))

\* merge::option_hashmap::recurse_some
recurse_some(V, left, right) ==
    IF right # None
    THEN IF left # None THEN Some(hashmap_recurse(V, Unwrap(left), Unwrap(right))) ELSE right
    ELSE left

\* Merge::merge of a type: the strategy of a field, or, for a struct that
\* derives Merge, every field merged under the strategy of its attribute.
merge(T, left, right) ==
    CASE T.strategy = "overwrite" -> overwrite(left, right)
      [] T.strategy = "option::overwrite_some" -> overwrite_some(left, right)
      [] T.strategy = "vec::append" -> vec_append(left, right)
      [] T.strategy = "option_vec::append_some" -> append_some(left, right)
      [] T.strategy = "hashmap::overwrite_key" -> overwrite_key(left, right)
      [] T.strategy = "option_hashmap::overwrite_key_some" -> overwrite_key_some(left, right)
      [] T.strategy = "option::recurse" -> option_recurse(T.of, left, right)
      [] T.strategy = "hashmap::recurse" -> hashmap_recurse(T.of, left, right)
      [] T.strategy = "option_hashmap::recurse_some" -> recurse_some(T.of, left, right)
      [] T.strategy = "derive" ->
            [f \in DOMAIN T.fields |-> merge(T.fields[f], left[f], right[f])]

\* The types whose merge is called: fields of the Forge models with their
\* #[merge(strategy = ..)] attribute, structs that derive Merge, and the
\* generic strategies at a struct of the models.
Descriptor(name) ==
    LET Overwrite == [strategy |-> "overwrite"]
        OverwriteSome == [strategy |-> "option::overwrite_some"]
        ForgeFile == [strategy |-> "derive",
                      fields |-> [classifier |-> Overwrite, hash |-> Overwrite,
                                  extension |-> Overwrite]]
        ForgeMCVersionInfo ==
            [strategy |-> "derive",
             fields |-> [latest |-> OverwriteSome, recommended |-> OverwriteSome,
                         versions |-> [strategy |-> "vec::append"]]]
        ForgeLegacyInfo ==
            [strategy |-> "derive",
             fields |-> [release_time |-> OverwriteSome, size |-> OverwriteSome,
                         sha256 |-> OverwriteSome, sha1 |-> OverwriteSome]]
        DataSpec == [strategy |-> "derive",
                     fields |-> [client |-> OverwriteSome, server |-> OverwriteSome]]
    IN CASE name = "ForgeFile.hash" -> Overwrite
         [] name = "ForgeEntry.branch" -> OverwriteSome
         [] name = "ForgeMCVersionInfo.versions" -> [strategy |-> "vec::append"]
         [] name = "ProcessorSpec.args" -> [strategy |-> "option_vec::append_some"]
         [] name = "hashmap::overwrite_key<String, String>" ->
                [strategy |-> "hashmap::overwrite_key"]
         [] name = "ProcessorSpec.outputs" ->
                [strategy |-> "option_hashmap::overwrite_key_some"]
         [] name = "ForgeFile" -> ForgeFile
         [] name = "ForgeMCVersionInfo" -> ForgeMCVersionInfo
         [] name = "option::recurse<DataSpec>" ->
                [strategy |-> "option::recurse", of |-> DataSpec]
         [] name = "option::recurse<ForgeMCVersionInfo>" ->
                [strategy |-> "option::recurse", of |-> ForgeMCVersionInfo]
         [] name = "ForgeLegacyInfoList.number" ->
                [strategy |-> "hashmap::recurse", of |-> ForgeLegacyInfo]
         [] name = "hashmap::recurse<String, ForgeMCVersionInfo>" ->
                [strategy |-> "hashmap::recurse", of |-> ForgeMCVersionInfo]
         [] name = "ForgeInstallerProfileV2.data" ->
                [strategy |-> "option_hashmap::recurse_some", of |-> DataSpec]

MergeTypes ==
    {"ForgeFile.hash", "ForgeEntry.branch", "ForgeMCVersionInfo.versions",
     "ProcessorSpec.args", "hashmap::overwrite_key<String, String>",
     "ProcessorSpec.outputs", "ForgeFile", "ForgeMCVersionInfo",
     "option::recurse<DataSpec>", "option::recurse<ForgeMCVersionInfo>",
     "ForgeLegacyInfoList.number", "hashmap::recurse<String, ForgeMCVersionInfo>",
     "ForgeInstallerProfileV2.data"}

\* Maps with keys among "k1", "k2" and values of V.
SmallMaps(V) == UNION {[D -> V] : D \in SUBSET {"k1", "k2"}}
Options(V) == {None} \cup {Some(v) : v \in V}

\* The values of a type that the calls are made with.
Samples(name) ==
    LET ForgeFiles ==
            {[classifier |-> "installer", hash |-> "a", extension |-> "jar"],
             [classifier |-> "universal", hash |-> "b", extension |-> "zip"],
             [classifier |-> "installer", hash |-> "b", extension |-> "jar"]}
        ForgeMCVersionInfos ==
            {[latest |-> Some("10.5.100"), recommended |-> None,
              versions |-> <<"10.5.100">>],
             [latest |-> Some("10.7.200"), recommended |-> Some("10.5.100"),
              versions |-> <<"10.7.200">>]}
        ForgeLegacyInfos ==
            {[release_time |-> Some(1), size |-> None, sha256 |-> Some("a"), sha1 |-> None],
             [release_time |-> None, size |-> Some(2), sha256 |-> Some("b"), sha1 |-> None]}
        DataSpecs ==
            {[client |-> Some("a"), server |-> None],
             [client |-> None, server |-> Some("b")]}
        StringMaps == {m \in SmallMaps({"a", "b"}) : "k2" \in DOMAIN m => m["k2"] = "b"}
    IN CASE name = "ForgeFile.hash" -> {"a", "b", "c"}
         [] name = "ForgeEntry.branch" -> Options({"a", "b"})
         [] name = "ForgeMCVersionInfo.versions" -> {<<>>, <<"1">>, <<"2">>, <<"1", "2">>}
         [] name = "ProcessorSpec.args" -> Options({<<>>, <<"a">>, <<"b">>})
         [] name = "hashmap::overwrite_key<String, String>" -> StringMaps
         [] name = "ProcessorSpec.outputs" -> Options(StringMaps)
         [] name = "ForgeFile" -> ForgeFiles
         [] name = "ForgeMCVersionInfo" ->
                ForgeMCVersionInfos
                \cup {[latest |-> None, recommended |-> None, versions |-> <<>>]}
         [] name = "option::recurse<DataSpec>" ->
                Options(DataSpecs \cup {[client |-> Some("b"), server |-> Some("a")]})
         [] name = "option::recurse<ForgeMCVersionInfo>" -> Options(ForgeMCVersionInfos)
         [] name = "ForgeLegacyInfoList.number" -> SmallMaps(ForgeLegacyInfos)
         [] name = "hashmap::recurse<String, ForgeMCVersionInfo>" ->
                SmallMaps(ForgeMCVersionInfos)
         [] name = "ForgeInstallerProfileV2.data" -> Options(SmallMaps(DataSpecs))

\* The calls on the operands a, b, c of one type: a.merge(a), a.merge(b),
\* a.merge(b) followed by merge(c), and b.merge(c) followed by a.merge(it).
merge_calls ==
    /\ descriptor \in MergeTypes
    /\ merged = None
    /\ LET T == Descriptor(descriptor)
           a == operands[1]
           b == operands[2]
           c == operands[3]
       IN merged' = Some([self |-> merge(T, a, a),
                          pair |-> merge(T, a, b),
                          left_first |-> merge(T, merge(T, a, b), c),
                          right_first |-> merge(T, a, merge(T, b, c))])
    /\ UNCHANGED <<system_vars, descriptor, operands>>

\* ------------------------------------------------------------------ claims
Batches == {"mojang_batch", "forge_batch", "installer_batch"}
Collected == {results[k].task : k \in DOMAIN results}

\* The item of a successful task is in storage: the version document (at the
\* remote time when the update was forced), or the build's files manifest.
StoredItem(kind, item) ==
    CASE kind = "mojang_batch" ->
            /\ minecraft_versions[item.id] # None
            /\ item.force_update =>
                  Unwrap(minecraft_versions[item.id]).time = remote_manifest[item.id]
      [] kind = "forge_batch" ->
            Get(files_manifests, item.long_version) = Some(Build(item.long_version).files)
      [] OTHER -> TRUE

SucceededAreStored ==
    pc \in {"mojang_batch", "forge_batch"} =>
        \A i \in DOMAIN tasks : tasks[i].out = "ok" => StoredItem(pc, pending[i])

\* C1: in a Mojang or Forge build batch, whichever tasks fail, the item of
\* every task that succeeded is in storage from the moment the task succeeded,
\* it is still there when the batch returns (Ok or Err), and no step removes a
\* stored item afterwards.
C1_PartialFailureDurability ==
    [][ /\ SucceededAreStored'
        /\ (pc \in {"mojang_batch", "forge_batch"} /\ pc' \notin Batches) =>
              \A i \in DOMAIN tasks : tasks[i].out = "ok" =>
                  \E kind \in {pc} : \E item \in {pending[i]} : StoredItem(kind, item)'
        /\ \A id \in MojangIds :
              minecraft_versions[id] # None => minecraft_versions'[id] # None
        /\ \A lv \in DOMAIN files_manifests :
              /\ lv \in DOMAIN files_manifests'
              /\ files_manifests'[lv] = files_manifests[lv] ]_vars

\* A Mojang batch returned with one id failed and the other id stored.
C1_Witness ==
    /\ pc = "idle"
    /\ source = "mojang"
    /\ failed_prev # {}
    /\ \E id \in MojangIds \ failed_prev : minecraft_versions[id] # None

\* C2: no task is cancelled because a sibling failed: a batch that is not
\* drained can always take a step, no item is collected twice, and when
\* collect() returns the result list holds exactly one outcome per pending
\* item.
C2_NoSiblingCancellation ==
    pc \in Batches =>
        /\ \A j, k \in DOMAIN results : j # k => results[j].task # results[k].task
        /\ \A i \in DOMAIN tasks : tasks[i].st = "collected" <=> i \in Collected
        /\ Drained => Collected = DOMAIN pending /\ Len(results) = Len(pending)
        /\ ~Drained =>
              \/ Running # {}
              \/ next_item <= Len(pending)
                    /\ Cardinality(InProgress) < max_parallel_fetch_connections
              \/ \E i \in DOMAIN tasks : tasks[i].st = "done"

\* A Forge batch of two builds drained: the first collected task failed, the
\* second one still ran and succeeded.
C2_Witness ==
    /\ pc = "forge_batch"
    /\ Drained
    /\ Len(results) = 2
    /\ results[1].out # "ok"
    /\ results[2].out = "ok"

\* C3: in the Mojang version batch, the Forge build batch and the Forge
\* installer batch, the tasks spawned and not yet completed never number more
\* than max_parallel_fetch_connections.
C3_BoundedConcurrency ==
    pc \in Batches => Cardinality(Running) <= max_parallel_fetch_connections

\* The bound is reached in an installer batch while an item still waits.
C3_Witness ==
    /\ pc = "installer_batch"
    /\ Cardinality(Running) = max_parallel_fetch_connections
    /\ next_item <= Len(pending)

NoFatal == \A k \in DOMAIN results : results[k].out # "storage"

PartialFailure ==
    /\ pc = "forge_batch"
    /\ Drained
    /\ \E k \in DOMAIN results : results[k].out # "ok"
    /\ \E k \in DOMAIN results : results[k].out = "ok"

SucceededBuilds ==
    {pending[results[k].task].long_version :
        k \in {j \in DOMAIN results : results[j].out = "ok"}}

\* update_forge_metadata returns Ok with an index stored that holds the
\* builds stored before and the builds whose task succeeded.
IndexPersisted ==
    /\ update_forge_metadata_end
    /\ outcome' = "Ok"
    /\ local_index' # None
    /\ DOMAIN Unwrap(local_index').versions =
           DOMAIN forge_index.versions \cup SucceededBuilds

StillListed(x) ==
    IF source = "mojang" THEN x \in DOMAIN remote_manifest ELSE x.long_version \in listed

\* C5: an id or build whose task failed in the previous cycle and that is
\* still listed remotely is in the pending set of the cycle that runs now.
C5_RetryNextCycle ==
    pc \in {"mojang_batch", "forge_batch"} =>
        \A x \in failed_prev :
            StillListed(x) => x \in {ItemKey(pending[i]) : i \in DOMAIN pending}

\* C6: with a local Mojang manifest stored, an id is pending exactly when it
\* is in the remote manifest and is absent locally or stored with a strictly
\* older time; each pending id appears once.
C6_DiffDefinition ==
    (pc = "mojang_batch" /\ local_manifest # None) =>
        /\ {pending[i].id : i \in DOMAIN pending} =
              {id \in DOMAIN remote_manifest :
                  \/ id \notin DOMAIN Unwrap(local_manifest)
                  \/ Unwrap(local_manifest)[id] < remote_manifest[id]}
        /\ \A i, j \in DOMAIN pending : i # j => pending[i].id # pending[j].id

\* A batch with a refetched id, while another id with an unchanged time and
\* one with a newer local time are listed.
C6_Witness ==
    /\ pc = "mojang_batch"
    /\ local_manifest # None
    /\ \E i \in DOMAIN pending : pending[i].force_update
    /\ \E id \in DOMAIN remote_manifest \cap DOMAIN Unwrap(local_manifest) :
          remote_manifest[id] <= Unwrap(local_manifest)[id]

\* C7: with no local manifest (Mojang) or no local maven metadata (Forge)
\* stored, the pending items are exactly the remote ids, or the remote
\* (mc version, long version) pairs, each once.
C7_FirstRunDiff ==
    /\ (pc = "mojang_batch" /\ local_manifest = None) =>
          /\ {pending[i].id : i \in DOMAIN pending} = DOMAIN remote_manifest
          /\ Len(pending) = Cardinality(DOMAIN remote_manifest)
    /\ (pc = "forge_batch" /\ local_maven = None) =>
          /\ Range(pending) = {[mc_version |-> Build(lv).mc_version, long_version |-> lv] :
                                  lv \in listed}
          /\ Len(pending) = Cardinality(listed)

\* A first Forge run dispatching two builds.
C7_Witness ==
    /\ pc = "forge_batch"
    /\ local_maven = None
    /\ Len(pending) = 2

DigestMatches ==
    /\ local_index # None
    /\ last_index_entry # None
    /\ Unwrap(last_index_entry).hash = hash(Unwrap(local_index))

\* C8: an installer pass that starts while the stored digest is the digest
\* of the stored index (a pass completed on this very index) returns without
\* dispatching a process_forge_installer task and without writing anything.
C8_SecondRunIsNoOp ==
    [][ (pc = "installer" /\ DigestMatches) =>
            /\ pc' = "idle"
            /\ tasks' = <<>>
            /\ UNCHANGED <<forge_meta_files, files_manifests, installer_files>> ]_vars

\* The second pass is about to start on the index whose jars the first pass
\* fetched and whose digest it stored.
C8_Witness ==
    /\ pc = "installer"
    /\ cycles = 1
    /\ DigestMatches
    /\ jars # {}

\* C9: with no digest stored the installer pass regenerates (unless it fails
\* before the gate), and it returns early only when a digest is stored and
\* equals the digest of the stored index.
C9_GateFirstRun ==
    [][ pc = "installer" =>
            /\ (last_index_entry = None /\ outcome' # "Err") => pc' = "installer_batch"
            /\ (pc' = "idle" /\ outcome' = "Ok") => DigestMatches ]_vars

\* The pass regenerates although a digest is stored: the index changed.
C9_Witness ==
    /\ pc = "installer_batch"
    /\ last_index_entry # None
    /\ Unwrap(last_index_entry).hash # hash(Unwrap(local_index))

\* C10: the stored digest changes only in a pass in which every
\* process_forge_installer task succeeded.
C10_DigestOnlyOnSuccess ==
    [][ last_index_entry' # last_index_entry =>
            \A i \in DOMAIN tasks : tasks[i].out = "ok" ]_vars

\* C11: in every stored derived index, each game version's latest is set and
\* is the last element of that game version's versions list, whatever the
\* promotions document says about "latest".
C11_LatestIsLast ==
    local_index # None =>
        \A g \in DOMAIN Unwrap(local_index).by_mc_version :
            LET info == Unwrap(local_index).by_mc_version[g]
            IN /\ info.versions # <<>>
               /\ info.latest = Some(info.versions[Len(info.versions)])

\* A stored index with two builds of one game version whose latest is not the
\* build the stored promotions name as latest for that game version.
C11_Witness ==
    /\ local_index # None
    /\ local_promos # None
    /\ \E g \in DOMAIN Unwrap(local_index).by_mc_version :
          LET info == Unwrap(local_index).by_mc_version[g]
              key == g \o "-latest"
          IN /\ Len(info.versions) = 2
             /\ key \in DOMAIN Unwrap(local_promos)
             /\ info.latest # None
             /\ Unwrap(local_index).versions[Unwrap(info.latest)].version
                    # Unwrap(local_promos)[key]

\* C12: with the promotions {"1.20-recommended": "10.5", "1.20-latest-forge":
\* "10.7"} and the builds 1.20-10.5.100 and 1.20-10.7.200 listed in that order
\* under 1.20, the stored index has recommended 1.20-10.5.100 and latest
\* 1.20-10.7.200 for 1.20.
C12_ExampleResolution ==
    ( /\ local_index # None
      /\ local_promos = Some(ExamplePromotions)
      /\ local_maven = Some("1.20" :> <<"1.20-10.5.100", "1.20-10.7.200">>)
      /\ DOMAIN Unwrap(local_index).versions = {"1.20-10.5.100", "1.20-10.7.200"} )
    => /\ Unwrap(local_index).by_mc_version["1.20"].recommended = Some("1.20-10.5.100")
       /\ Unwrap(local_index).by_mc_version["1.20"].latest = Some("1.20-10.7.200")

\* C13: in a stored index a game version g has recommended build v only if
\* the promotions stored with it hold the key "<g>-recommended" (no branch)
\* whose value is the short version of v; a short version promoted for one
\* game version never makes a build of another game version recommended.
C13_RecommendedPerGameVersion ==
    (local_index # None /\ local_promos # None) =>
        \A g \in DOMAIN Unwrap(local_index).by_mc_version :
            LET info == Unwrap(local_index).by_mc_version[g]
                key == g \o "-recommended"
            IN info.recommended # None =>
                  /\ key \in DOMAIN Unwrap(local_promos)
                  /\ Unwrap(local_promos)[key]
                        = Unwrap(local_index).versions[Unwrap(info.recommended)].version

EndsWith(s, p) == Len(s) >= Len(p) /\ SubSeq(s, Len(s) - Len(p) + 1, Len(s)) = p

\* The short versions a promotions document names under a key that ends in
\* "-recommended", that is with no branch segment behind the promotion word.
PlainRecommended(doc) ==
    {doc[k] : k \in {key \in DOMAIN doc :
                        EndsWith(key, "-recommended") /\ Len(key) > Len("-recommended")}}

C15_DiscoveryOrder ==
    (local_index # None /\ local_maven # None /\ cycles = 0) =>
        \A g \in DOMAIN Unwrap(local_index).by_mc_version :
            /\ g \in DOMAIN Unwrap(local_maven)
            /\ Unwrap(local_index).by_mc_version[g].versions
                  = SelectSeq(Unwrap(local_maven)[g],
                              LAMBDA lv : lv \in DOMAIN Unwrap(local_index).versions)

\* C16: a long version on BAD_FORGE_VERSIONS is never a key of versions and
\* never in a by_mc_version list of a stored derived index.
C16_DenyListExcluded ==
    local_index # None =>
        /\ DOMAIN Unwrap(local_index).versions \cap BAD_FORGE_VERSIONS = {}
        /\ \A g \in DOMAIN Unwrap(local_index).by_mc_version :
              Range(Unwrap(local_index).by_mc_version[g].versions)
                  \cap BAD_FORGE_VERSIONS = {}

\* C17: once a derived index is stored, no step removes it or removes a key
\* of its versions map, also after upstream stopped listing the build.
C17_AppendOnly ==
    [][ local_index # None =>
            /\ local_index' # None
            /\ DOMAIN Unwrap(local_index).versions
                   \subseteq DOMAIN Unwrap(local_index').versions ]_vars

\* A cycle ran to the end after upstream withdrew a build: the stored maven
\* metadata no longer lists it, the stored index still has it.
C17_Witness ==
    /\ local_index # None
    /\ local_maven # None
    /\ cycles = 2
    /\ outcome = "Ok"
    /\ \E lv \in DOMAIN Unwrap(local_index).versions :
          /\ lv \notin listed
          /\ \A g \in DOMAIN Unwrap(local_maven) : lv \notin Range(Unwrap(local_maven)[g])

\* The extensions of a classifier whose hash has 32 characters once the
\* non-word characters are removed.
ValidHashes(extension_obj) ==
    {e \in DOMAIN extension_obj : Len(StripNonWord(extension_obj[e])) = 32}

\* C18: a build task whose files manifest has a classifier with two or more
\* valid extensions does not succeed (it ends with a data error once it has
\* the manifest); the entry of a task that succeeds maps exactly the
\* classifiers with a valid extension, each to the single ForgeFile of that
\* extension.
C18_OneFilePerClassifier ==
    pc = "forge_batch" =>
        \A i \in DOMAIN tasks :
            LET manifest == Build(pending[i].long_version).files
                multiple == \E c \in DOMAIN manifest : Cardinality(ValidHashes(manifest[c])) > 1
            IN /\ (multiple /\ tasks[i].out \notin {"none", "net", "storage"}) =>
                      tasks[i].out = "data"
               /\ tasks[i].out = "ok" =>
                      LET files == Unwrap(Unwrap(tasks[i].val).files)
                      IN /\ DOMAIN files = {c \in DOMAIN manifest : ValidHashes(manifest[c]) # {}}
                         /\ \A c \in DOMAIN files :
                               /\ ValidHashes(manifest[c]) = {files[c].extension}
                               /\ files[c].classifier = c
                               /\ files[c].hash = StripNonWord(manifest[c][files[c].extension])

\* The task of the build with two valid installer extensions stored the
\* manifest and failed, while the task of the build whose second extension
\* has a short hash succeeded.
C18_Witness ==
    /\ pc = "forge_batch"
    /\ \E i, j \in DOMAIN tasks :
          /\ pending[i].long_version = "1.20-10.8.300"
          /\ "1.20-10.8.300" \in DOMAIN files_manifests
          /\ tasks[i].out = "data"
          /\ pending[j].long_version = "1.20.1-47.1.0"
          /\ tasks[j].out = "ok"

\* C19: the task of a pending long version that does not match the build
\* string grammar ends with an error of its own and returns no entry (it is a
\* failed item of the batch), and no stored index has such a long version.
C19_UnparsableVersionFails ==
    /\ pc = "forge_batch" =>
          \A i \in DOMAIN tasks :
              (version_expression(pending[i].long_version) = None
                    /\ tasks[i].st \in {"done", "collected"}) =>
                  /\ tasks[i].out = "data"
                  /\ tasks[i].val = None
                  /\ tasks[i].st = "collected" =>
                        \E k \in DOMAIN results : results[k].task = i /\ results[k].out = "data"
    /\ local_index # None =>
          \A lv \in DOMAIN Unwrap(local_index).versions : version_expression(lv) # None

\* A batch of two builds was collected: the task of 1.20-nightly failed, the
\* other task returned its entry.
C19_Witness ==
    /\ pc = "forge_batch"
    /\ Drained
    /\ \E i, j \in DOMAIN tasks :
          /\ pending[i].long_version = "1.20-nightly"
          /\ tasks[i].out = "data"
          /\ tasks[j].out = "ok"

\* A build is supported when its url resolves and the leading numeric
\* component of its version is below 37.
Supported(version) ==
    LET major == parse_i32(Prefix(version.raw_version, Digit))
    IN /\ version_filename(version) # None
       /\ major # None
       /\ Unwrap(major) < 37

\* C20: the installer task of a build whose install_profile.json
\* deserializes as no profile schema ends with an error exactly when the
\* build is supported; for an unsupported build it succeeds; in both cases
\* no installer profile can be loaded for the build afterwards.
C20_UnparsableProfile ==
    pc = "installer_batch" =>
        \A i \in DOMAIN tasks :
            ( /\ Build(pending[i].long_version).install_profile = "unparsable"
              /\ tasks[i].out \in {"ok", "data"} ) =>
                /\ tasks[i].out = "data" <=> Supported(pending[i])
                /\ tasks[i].out = "ok" <=> ~Supported(pending[i])
                /\ load_installer_manifest(pending[i].long_version) = None

\* C21: an installer task that opened an installer jar without an
\* install_profile.json entry ends with an error only when the build is
\* supported; for an unsupported build the task does not return an error.
C21_MissingProfileEntry ==
    pc = "installer_batch" =>
        \A i \in DOMAIN tasks :
            ( /\ uses_installer(pending[i])
              /\ Build(pending[i].long_version).install_profile = "none"
              /\ tasks[i].out \in {"ok", "data"} ) =>
                (tasks[i].out = "data" => Supported(pending[i]))

\* C22: forge-legacyinfo.json, once written, is never written again; and in
\* an installer pass that started with the file in place no task of a build
\* without installer downloads its archive or returns legacy info.
C22_LegacyInfoOnce ==
    [][ /\ legacy_info_file # None => legacy_info_file' = legacy_info_file
        /\ (pc = "installer_batch" /\ legacy_info_file # None) =>
              /\ ~aquire_legacy_info
              /\ \A i \in DOMAIN tasks \cap DOMAIN tasks' :
                    ~uses_installer(pending[i]) =>
                        /\ tasks'[i].val = None
                        /\ Unwrap(version_filename(pending[i])) \in jars'
                              => Unwrap(version_filename(pending[i])) \in jars ]_vars

\* A pass that started with the legacy info file in place: the task of the
\* legacy build returned without its archive being there.
C22_Witness ==
    /\ pc = "installer_batch"
    /\ legacy_info_file # None
    /\ \E i \in DOMAIN tasks :
          /\ ~uses_installer(pending[i])
          /\ tasks[i].out = "ok"
          /\ Unwrap(version_filename(pending[i])) \notin jars

\* The class of a task failure: a download failure is Transient, a payload or
\* identifier that does not parse is a DataError, a storage failure and a
\* task fault are Fatal.
ErrorClass(out) ==
    CASE out = "net" -> "Transient"
      [] out = "data" -> "DataError"
      [] out \in {"storage", "join"} -> "Fatal"
      [] OTHER -> "none"

C24_FatalStopsDispatch ==
    [][ (pc \in Batches /\ pc' = pc
            /\ \E i \in DOMAIN tasks : tasks[i].out = "storage") =>
            \A j \in DOMAIN tasks :
                tasks[j].st = "queued" => tasks'[j].st = "queued" ]_vars

\* C25: a batch that is running eventually finishes, also when a request of
\* one of its tasks never gets a response.
C25_HungFetchEnds ==
    (pc \in Batches) ~> (pc \notin Batches)

\* The strategy of the type under merge, and whether a type has a field
\* that appends.
Strategy == Descriptor(descriptor).strategy
Recursing == {"option::recurse", "hashmap::recurse", "option_hashmap::recurse_some"}
Appending == {"vec::append", "option_vec::append_some"}
AppendFree(T) ==
    T.strategy = "derive" /\ \A f \in DOMAIN T.fields : T.fields[f].strategy \notin Appending

\* C26 as stated: under every strategy but append (overwrite, overwrite_some,
\* the recurse and overwrite_key strategies and their Option forms), a value
\* merged with an equal copy of itself is left unchanged.
C26_Idempotent ==
    (merged # None /\ Strategy \notin Appending \cup {"derive"})
        => Unwrap(merged).self = operands[1]

\* C26, amended: merge(x, x) = x under overwrite, overwrite_some and the
\* overwrite_key strategies, and under the recurse strategies when the
\* contained type has no field that appends.
C26_IdempotentWithoutAppend ==
    (/\ merged # None
     /\ Strategy \notin Appending \cup {"derive"}
     /\ Strategy \in Recursing => AppendFree(Descriptor(descriptor).of))
        => Unwrap(merged).self = operands[1]

C26_Witness ==
    /\ merged # None
    /\ descriptor = "ForgeInstallerProfileV2.data"
    /\ operands[1] # None /\ DOMAIN Unwrap(operands[1]) = {"k1", "k2"}
    /\ Unwrap(merged).self = operands[1]

\* C27: under the append, overwrite_some and recurse strategies, merging a
\* with b and the result with c gives what merging a with the merge of b
\* and c gives.
C27_Associative ==
    (merged # None /\ Strategy \in Appending \cup Recursing \cup {"option::overwrite_some"})
        => Unwrap(merged).left_first = Unwrap(merged).right_first

C27_Witness ==
    /\ merged # None
    /\ descriptor = "ProcessorSpec.args"
    /\ operands = <<Some(<<"a">>), None, Some(<<"b">>)>>
    /\ Unwrap(merged).left_first = Some(<<"a", "b">>)
    /\ Unwrap(merged).right_first = Some(<<"a", "b">>)

\* What C28 says of the maps base and overlay, V the type of their values.
KeyWise(V, base, overlay, result) ==
    /\ DOMAIN result = DOMAIN base \cup DOMAIN overlay
    /\ \A k \in DOMAIN overlay \ DOMAIN base : result[k] = overlay[k]
    /\ \A k \in DOMAIN overlay \cap DOMAIN base : result[k] = merge(V, base[k], overlay[k])
    /\ \A k \in DOMAIN base \ DOMAIN overlay : result[k] = base[k]

\* C28: the map recurse strategy merges key by key: the result's keys are
\* those of base and overlay, a key of overlay alone has overlay's value, a
\* key of both the merge of the two values, a key of base alone base's
\* value; under the Option forms a None overlay leaves base as it is and a
\* None base takes the overlay.
C28_KeyWiseMerge ==
    merged # None =>
        LET V == Descriptor(descriptor).of
            base == operands[1]
            overlay == operands[2]
            result == Unwrap(merged).pair
        IN /\ Strategy = "hashmap::recurse" => KeyWise(V, base, overlay, result)
           /\ Strategy \in {"option::recurse", "option_hashmap::recurse_some"} =>
                 /\ overlay = None => result = base
                 /\ base = None => result = overlay
           /\ (Strategy = "option_hashmap::recurse_some" /\ base # None /\ overlay # None) =>
                 /\ result # None
                 /\ KeyWise(V, Unwrap(base), Unwrap(overlay), Unwrap(result))

C28_Witness ==
    /\ merged # None
    /\ descriptor = "ForgeLegacyInfoList.number"
    /\ DOMAIN operands[1] = {"k1", "k2"} /\ DOMAIN operands[2] = {"k1"}
    /\ Unwrap(merged).pair["k1"] \notin {operands[1]["k1"], operands[2]["k1"]}
    /\ Unwrap(merged).pair["k2"] = operands[1]["k2"]

\* C29: the long version ForgeProcessedVersion::new rebuilds from a stored
\* entry's mc_version, version and branch matches the grammar of long
\* versions and is the long version of the build the entry was parsed from.
C29_RoundTrip ==
    pc = "installer_batch" =>
        \A i \in DOMAIN pending :
            LET version == pending[i]
                versions == Unwrap(local_index).versions
                captures == version_expression(version.long_version)
            IN /\ captures # None
               /\ Unwrap(captures).ver = version.raw_version
               /\ Unwrap(captures).branch = version.branch
               /\ version.long_version \in listed
               /\ version.long_version \in DOMAIN versions
               /\ versions[version.long_version].build = version.build
               /\ versions[version.long_version].long_version = version.long_version

C29_Witness ==
    /\ pc = "installer_batch"
    /\ \E i \in DOMAIN pending :
          /\ pending[i].long_version = "1.7.10-10.13.4.1614-1.7.10"
          /\ pending[i].branch = Some("1.7.10")
    /\ \E i \in DOMAIN pending :
          /\ pending[i].long_version = "1.7.10_pre4-10.12.2.1149-prerelease"
          /\ pending[i].mc_version_sane = "1.7.10-pre4"

\* C30: while a task of the build batch has not run to its end or its
\* outcome is not collected, no step changes the index in memory or the
\* stored one; the index changes only once every outcome is in `results`,
\* and the builds it gains are builds whose task succeeded.
C30_SingleWriter ==
    [][ pc = "forge_batch" =>
          /\ (\E i \in DOMAIN tasks : tasks[i].st # "collected") =>
                (forge_index' = forge_index /\ local_index' = local_index)
          /\ local_index' # local_index =>
                /\ Len(results) = Len(pending)
                /\ (DOMAIN Unwrap(local_index').versions) \ (DOMAIN forge_index.versions)
                      \subseteq SucceededBuilds ]_vars

C30_Witness ==
    /\ pc = "installer"
    /\ local_index # None
    /\ Cardinality(DOMAIN Unwrap(local_index).versions) = MaxListed
    /\ Cardinality(failed_prev) = 0
    /\ cycles = 1

\* C31: once the installer task of a build whose archive holds version.json
\* has succeeded, load_mojang_version of the build's long version returns
\* the document that was parsed from the archive.
C31_VersionJsonRoundTrip ==
    pc = "installer_batch" =>
        \A i \in DOMAIN tasks :
            ( /\ tasks[i].out = "ok"
              /\ uses_installer(pending[i])
              /\ Build(pending[i].long_version).version_json ) =>
                load_mojang_version(pending[i].long_version)
                    = Some(VersionFile(pending[i].long_version))

\* C32: the installer profile, the embedded version.json and the installer
\* info of a build do not overwrite one another: once the installer task of
\* a build with a parsable install_profile.json has succeeded,
\* load_installer_manifest of its long version returns the profile that was
\* extracted from the archive.
C32_IndependentKeys ==
    pc = "installer_batch" =>
        \A i \in DOMAIN tasks :
            ( /\ tasks[i].out = "ok"
              /\ uses_installer(pending[i])
              /\ Build(pending[i].long_version).install_profile \in {"V1", "V2"} ) =>
                load_installer_manifest(pending[i].long_version)
                    = Some(Build(pending[i].long_version).install_profile)

\* C33: in the stored derived index every key of versions occurs exactly
\* once in the versions list of its game version, every element of a
\* versions list is a key of versions, no versions list is empty, and
\* update_forge_metadata has not panicked, also when a build was withdrawn
\* upstream and listed again.
C33_IndexCrossConsistency ==
    /\ pc # "panicked"
    /\ local_index # None =>
        LET index == Unwrap(local_index)
            by == index.by_mc_version
        IN /\ \A v \in DOMAIN index.versions :
                 LET g == index.versions[v].mc_version
                 IN /\ g \in DOMAIN by
                    /\ Cardinality({k \in DOMAIN by[g].versions : by[g].versions[k] = v}) = 1
           /\ \A g \in DOMAIN by :
                 /\ by[g].versions # <<>>
                 /\ \A k \in DOMAIN by[g].versions : by[g].versions[k] \in DOMAIN index.versions

\* C34: a step that stores the maven metadata after a batch whose tasks all
\* succeeded leaves every pair of that batch that the stored metadata lists
\* and that is not deny-listed as a key of the stored derived index, unless
\* the stored index is missing or empty (so that a later cycle fetches every
\* listed pair again): a storage failure between store_maven_metadata and
\* store_index leaves no build permanently out of the index.
C34_MetadataAndIndexInStep ==
    [][ ( /\ local_maven' # local_maven
          /\ local_maven' # None
          /\ \A k \in DOMAIN results : results[k].out = "ok" ) =>
            \A k \in DOMAIN pending :
                \/ pending[k] \notin version_pairs(Unwrap(local_maven'))
                \/ pending[k].long_version \in BAD_FORGE_VERSIONS
                \/ local_index' = None
                \/ DOMAIN Unwrap(local_index').versions = {}
                \/ pending[k].long_version \in DOMAIN Unwrap(local_index').versions ]_vars

\* C35: when update_forge_metadata has returned Ok, every entry of the
\* stored index has recommended == Some(its version is in the recommended
\* set of the promotions of that cycle), and a game version's recommended
\* pointer names an entry whose recommended flag is Some(true): a pointer
\* does not keep naming a build whose promotion was withdrawn.
C35_RecommendedTracksPromotions ==
    (pc = "installer" /\ outcome = "Ok") =>
        LET index == Unwrap(local_index)
            rs == recommended_set(promos)
        IN /\ \A v \in DOMAIN index.versions :
                 index.versions[v].recommended = Some(index.versions[v].version \in rs)
           /\ \A g \in DOMAIN index.by_mc_version :
                 index.by_mc_version[g].recommended # None =>
                    index.versions[Unwrap(index.by_mc_version[g].recommended)].recommended
                        = Some(TRUE)

\* C36: once the installer task of an installer build has succeeded,
\* load_installer_info of its long version returns the installer info that
\* the task stored, so that a later run needs no refresh.
C36_InstallerInfoRoundTrip ==
    pc = "installer_batch" =>
        \A i \in DOMAIN tasks :
            (tasks[i].out = "ok" /\ uses_installer(pending[i])) =>
                load_installer_info(pending[i].long_version)
                    = Some(InfoFile(Unwrap(version_filename(pending[i]))))

\* C37: when every task returns, a running batch reaches the state where
\* collect() returns with exactly one result per pending item, and on the
\* way every item is dispatched exactly once: a task is spawned from the
\* queue only, and a spawned task is never queued again.
C37_BatchTerminates ==
    /\ [][ (pc \in Batches /\ pc' = pc) =>
              \A i \in DOMAIN tasks :
                  /\ tasks[i].st # "queued" => tasks'[i].st # "queued"
                  /\ (tasks'[i].st = "spawned" /\ tasks[i].st # "spawned") =>
                        (tasks[i].st = "queued" /\ i = next_item) ]_vars
    /\ (pc \in Batches) ~>
          ( /\ pc \in Batches
            /\ Drained
            /\ Len(results) = Len(pending)
            /\ \A i \in DOMAIN pending :
                  Cardinality({k \in DOMAIN results : results[k].task = i}) = 1 )

\* A batch of two builds ended under max_parallel_fetch_connections = 1 with
\* both results collected.
C37_Witness ==
    /\ pc = "forge_batch"
    /\ max_parallel_fetch_connections = 1
    /\ Len(pending) = 2
    /\ Drained
    /\ Len(results) = 2

\* C38: a stored files manifest is never removed or replaced, and a build
\* task downloads meta.json, fails downloading it, or stores a files manifest
\* only when no files manifest is stored for its long version; a stored one
\* is reused in every later cycle.
C38_FilesManifestCache ==
    [][ /\ \A lv \in DOMAIN files_manifests :
              lv \in DOMAIN files_manifests' /\ files_manifests'[lv] = files_manifests[lv]
        /\ (pc = "forge_batch" /\ pc' = pc) =>
              \A i \in DOMAIN tasks :
                 ( \/ tasks[i].st = "spawned" /\ tasks'[i].st = "fetched"
                   \/ tasks[i].st = "spawned" /\ tasks'[i].out = "net"
                   \/ tasks[i].st = "fetched" /\ tasks'[i].out \in {"ok", "data"} ) =>
                     pending[i].long_version \notin DOMAIN files_manifests ]_vars

\* A build that the index already holds was listed again, and its task
\* returned its entry from the stored files manifest.
C38_Witness ==
    /\ pc = "forge_batch"
    /\ local_index # None
    /\ \E i \in DOMAIN tasks :
          /\ tasks[i].st = "done"
          /\ tasks[i].out = "ok"
          /\ pending[i].long_version \in DOMAIN Unwrap(local_index).versions
          /\ pending[i].long_version \in DOMAIN files_manifests

\* C39: every id that update_mojang_metadata dispatches is an id of the
\* remote manifest, so the lookup in the map closure never panics; an id
\* that the remote manifest does not list is not dispatched, and no step of
\* the batch changes or deletes its stored version document.
C39_DispatchedIdsAreRemote ==
    /\ [](pc # "panicked")
    /\ [](pc = "mojang_batch" =>
             \A k \in DOMAIN pending : pending[k].id \in DOMAIN remote_manifest)
    /\ [][ pc = "mojang_batch" =>
              \A id \in MojangIds \ DOMAIN remote_manifest :
                  minecraft_versions'[id] = minecraft_versions[id] ]_vars

\* A batch is dispatching while the local manifest still lists an id that
\* upstream withdrew and whose version document is stored.
C39_Witness ==
    /\ pc = "mojang_batch"
    /\ local_manifest # None
    /\ \E i \in DOMAIN tasks : tasks[i].st = "done"
    /\ \E id \in DOMAIN Unwrap(local_manifest) \ DOMAIN remote_manifest :
          minecraft_versions[id] # None

\* C40: in a Mojang batch an id is dispatched with force_update exactly when
\* the local manifest lists it or no local manifest exists.  The task of a
\* new id whose version document is stored downloads nothing and leaves the
\* document as it is; the task of a new id without a stored document, and
\* every task with force_update, returns Ok only after a download, and then
\* the stored document is the one of the remote manifest's time.
C40_RefetchRule ==
    /\ [](pc = "mojang_batch" =>
             \A k \in DOMAIN pending :
                 pending[k].force_update <=>
                     (local_manifest = None \/ pending[k].id \in DOMAIN Unwrap(local_manifest)))
    /\ [][ (pc = "mojang_batch" /\ pc' = pc) =>
              \A i \in DOMAIN tasks :
                 LET v == pending[i]
                     cached == ~v.force_update /\ minecraft_versions[v.id] # None
                 IN /\ (tasks[i].st = "spawned" /\ tasks'[i].st # "spawned" /\ cached) =>
                          /\ tasks'[i].st = "done"
                          /\ tasks'[i].out \notin {"net", "data"}
                    /\ cached => minecraft_versions'[v.id] = minecraft_versions[v.id]
                    /\ (tasks[i].st = "spawned" /\ tasks'[i].st # "spawned" /\ ~cached) =>
                          tasks'[i].out # "ok"
                    /\ (tasks[i].st = "fetched" /\ tasks'[i].out = "ok") =>
                          minecraft_versions'[v.id]
                              = Some([id |-> v.id, time |-> remote_manifest[v.id]]) ]_vars

\* An id that was stored, withdrawn and listed again at a later time is
\* pending as a new id; its task returned Ok and the stored document still
\* has the earlier time.
C40_Witness ==
    /\ pc = "mojang_batch"
    /\ \E i \in DOMAIN tasks :
          /\ ~pending[i].force_update
          /\ tasks[i].st = "done"
          /\ tasks[i].out = "ok"
          /\ minecraft_versions[pending[i].id] # None
          /\ Unwrap(minecraft_versions[pending[i].id]).time # remote_manifest[pending[i].id]

\* ------------------------------------------------------------------ system
\* The state before the first run: nothing is stored.
EmptyStore ==
    /\ pc = "idle"
    /\ max_parallel_fetch_connections \in 1..MaxParallel
    /\ outcome = "none"
    /\ local_manifest = None
    /\ minecraft_versions = [id \in MojangIds |-> None]
    /\ pending = <<>>
    /\ next_item = 1
    /\ tasks = <<>>
    /\ results = <<>>
    /\ failed_prev = {}
    /\ local_maven = None /\ local_promos = None /\ local_index = None
    /\ files_manifests = EmptyMap
    /\ last_index_entry = None
    /\ legacy_info_file = None
    /\ jars = {}
    /\ installer_manifests = EmptyMap
    /\ installer_infos = EmptyMap
    /\ version_manifests = EmptyMap
    /\ forge_index = DefaultIndex
    /\ aquire_legacy_info = FALSE
    /\ derived_index_hash = None

Fresh == cycles = 0 /\ EmptyStore

\* No merge is called by the updater.
NoMerge == descriptor = "none" /\ operands = <<>> /\ merged = None

InitMojang ==
    /\ source = "mojang"
    /\ remote_manifest \in UNION {[D -> 1..MaxTime] : D \in SUBSET MojangIds}
    /\ listed = {} /\ promos = EmptyMap
    /\ Fresh /\ NoMerge

InitForge ==
    /\ source = "forge"
    /\ remote_manifest = <<>>
    /\ listed \in {L \in SUBSET LongVersions : Cardinality(L) <= MaxListed}
    /\ promos \in PromotionDocs
    /\ Fresh /\ NoMerge

\* The buffer_unordered pipeline of the batch that is running.
Scheduler ==
    \/ buffer_unordered_spawn
    \/ \E i \in DOMAIN tasks : buffer_unordered_yield(i)

MojangSteps ==
    \/ update_mojang_metadata_begin
    \/ \E i \in DOMAIN tasks : update_mojang_version_manifest_fetch(i)
    \/ \E i \in DOMAIN tasks : update_mojang_version_manifest_store(i)
    \/ update_mojang_metadata_end
    \/ mojang_upstream_publish

ForgeRun ==
    \/ update_forge_metadata_begin
    \/ \E i \in DOMAIN tasks : process_forge_version_fetch(i)
    \/ \E i \in DOMAIN tasks : process_forge_version_store(i)
    \/ update_forge_metadata_end
    \/ update_forge_installer_metadata_begin
    \/ \E i \in DOMAIN tasks : process_forge_installer_fetch(i)
    \/ \E i \in DOMAIN tasks : process_forge_installer_extract(i)
    \/ update_forge_installer_metadata_end

ForgeSteps == ForgeRun \/ forge_upstream_publish

\* The Forge source when upstream serves one of the further promotions
\* documents and lists the two parsable builds of game version 1.20.
InitPromotions ==
    /\ source = "forge"
    /\ remote_manifest = <<>>
    /\ listed = {"1.20-10.5.100", "1.20-10.7.200"}
    /\ promos \in PromotionCases
    /\ Fresh /\ NoMerge

\* The Forge source when upstream lists as many builds from outside the
\* catalogue as the listing holds.
InitOddities ==
    /\ source = "forge"
    /\ remote_manifest = <<>>
    /\ listed \in {L \in SUBSET OddVersions : Cardinality(L) = MaxListed}
    /\ promos = EmptyMap
    /\ Fresh /\ NoMerge

NextMojang == Scheduler \/ MojangSteps
NextForge == Scheduler \/ ForgeSteps

\* initialize_metadata with the Mojang source, and with the Forge source.
SpecMojang == InitMojang /\ [][NextMojang]_vars
SpecForge == InitForge /\ [][NextForge]_vars

SpecPromotions == InitPromotions /\ [][NextForge]_vars
SpecOddities == InitOddities /\ [][NextForge]_vars

\* The Forge source while upstream withdraws builds it listed.
NextWithdrawal == Scheduler \/ ForgeRun \/ forge_upstream_withdraw
SpecWithdrawal == InitForge /\ [][NextWithdrawal]_vars

\* The Forge source when a request may hang.  The tokio runtime runs every
\* spawned task and the updater's own future: each step of the code that
\* stays enabled is eventually taken.  Nothing obliges upstream to hang.
InitHang ==
    /\ source = "forge"
    /\ remote_manifest = <<>>
    /\ listed = {"1.20-10.5.100", "1.5.2-7.8.1.738"}
    /\ promos = EmptyMap
    /\ Fresh /\ NoMerge

NextHang == Scheduler \/ ForgeRun \/ \E i \in DOMAIN tasks : request_hangs(i)

\* The updater's own future: the steps of update_forge_metadata and of
\* update_forge_installer_metadata, the polling of the stream included.
UpdaterStep ==
    \/ update_forge_metadata_begin
    \/ update_forge_metadata_end
    \/ update_forge_installer_metadata_begin
    \/ update_forge_installer_metadata_end
    \/ buffer_unordered_spawn
    \/ \E i \in DOMAIN tasks : buffer_unordered_yield(i)

\* The future of the i-th spawned task.
TaskStep(i) ==
    /\ i \in DOMAIN tasks
    /\ \/ process_forge_version_fetch(i)
       \/ process_forge_version_store(i)
       \/ process_forge_installer_fetch(i)
       \/ process_forge_installer_extract(i)

FairRun ==
    /\ WF_vars(UpdaterStep)
    /\ \A i \in 1..MaxListed : WF_vars(TaskStep(i))

SpecHang == InitHang /\ [][NextHang]_vars /\ FairRun

\* The Mojang source over MaxReappearCycles calls (the counter starts at
\* MaxCycles - MaxReappearCycles): an id is stored in one cycle, found
\* withdrawn in the next and listed again in a third.
InitMojangAgain ==
    /\ source = "mojang"
    /\ remote_manifest \in [MojangIds -> {1}]
    /\ listed = {} /\ promos = EmptyMap
    /\ cycles = MaxCycles - MaxReappearCycles
    /\ EmptyStore /\ NoMerge

SpecMojangAgain == InitMojangAgain /\ [][NextMojang]_vars

\* Either source when every request gets its response or its error: the
\* scheduling of SpecHang, and no task hangs.
MojangRun ==
    \/ update_mojang_metadata_begin
    \/ \E i \in DOMAIN tasks : update_mojang_version_manifest_fetch(i)
    \/ \E i \in DOMAIN tasks : update_mojang_version_manifest_store(i)
    \/ update_mojang_metadata_end

NextReturn == Scheduler \/ ForgeRun \/ MojangRun

\* The futures of the Mojang source: update_mojang_metadata's own, and that
\* of the i-th spawned task.
MojangUpdaterStep == update_mojang_metadata_begin \/ update_mojang_metadata_end

MojangTaskStep(i) ==
    /\ i \in DOMAIN tasks
    /\ \/ update_mojang_version_manifest_fetch(i)
       \/ update_mojang_version_manifest_store(i)

FairReturn ==
    /\ WF_vars(UpdaterStep \/ MojangUpdaterStep)
    /\ \A i \in 1..MaxListed : WF_vars(TaskStep(i) \/ MojangTaskStep(i))

SpecReturn == (InitHang \/ InitMojang) /\ [][NextReturn]_vars /\ FairReturn

\* The Forge source when upstream lists builds of a branch.
InitBranches ==
    /\ source = "forge"
    /\ remote_manifest = <<>>
    /\ listed \in {L \in SUBSET (BranchedVersions \cup {"1.20-10.5.100"}) :
                      Cardinality(L) = MaxListed}
    /\ promos = EmptyMap
    /\ Fresh /\ NoMerge

SpecBranches == InitBranches /\ [][NextForge]_vars

\* The Forge source while upstream withdraws builds and lists builds again.
\* A build is indexed in one cycle, found withdrawn in the next and listed
\* again in a third: this specification explores MaxReappearCycles calls,
\* so its counter starts at MaxCycles - MaxReappearCycles.
InitReappear ==
    /\ source = "forge"
    /\ remote_manifest = <<>>
    /\ listed \in {L \in SUBSET LongVersions : Cardinality(L) \in 1..MaxListed}
    /\ promos = EmptyMap
    /\ cycles = MaxCycles - MaxReappearCycles
    /\ EmptyStore /\ NoMerge

NextReappear == Scheduler \/ ForgeRun \/ forge_upstream_withdraw \/ forge_upstream_list_again

SpecReappear == InitReappear /\ [][NextReappear]_vars

\* The merge calls on their own: operands of one type, drawn from its samples.
InitMerge ==
    /\ source = "forge"
    /\ remote_manifest = <<>>
    /\ listed = {} /\ promos = EmptyMap
    /\ Fresh
    /\ descriptor \in MergeTypes
    /\ operands \in [1..3 -> Samples(descriptor)]
    /\ merged = None

NextMerge == merge_calls

SpecMerge == InitMerge /\ [][NextMerge]_vars

\* initialize_metadata with either source.
Init == InitMojang \/ InitForge
Next == Scheduler \/ MojangSteps \/ ForgeSteps
Spec == Init /\ [][Next]_vars
====
